---- MODULE Spec2Model ----
(***************************************************************************)
(* A model of the builder swarm's coordination engine:                     *)
(*   - TaskManager      (src/src/swarm/task-manager.ts)                    *)
(*   - checkpoint save and load (src/unnamed/part_008,                     *)
(*     swarm/checkpoint.ts)                                                *)
(*   - runOrchestrator  (src/src/agents/orchestrator.ts)                   *)
(*   - RateLimiter      (src/unnamed/part_001, llm/rate-limiter.ts)        *)
(*   - FileLockManager  (src/unnamed/part_007, swarm/file-lock.ts) and the *)
(*     write_file / patch_file tools that use it,                          *)
(*   - chatCompletion / chatCompletionStream (src/unnamed/part_000,        *)
(*     llm/client.ts) on a RateLimiter,                                    *)
(*   - runWorker        (src/unnamed/part_005, agents/worker.ts)           *)
(*   - parseJSON        (src/src/llm/json-parser.ts)                       *)
(*   - askOrchestrator  (src/src/agents/orchestrator.ts) with              *)
(*     manageContext    (src/unnamed/part_003, llm/context-manager.ts).    *)
(* Each component has its own specification (SpecTM, SpecCalls, SpecStore, *)
(* SpecOrch, SpecLoop, SpecBatch, SpecRL, SpecQueue, SpecFL, SpecLLM,      *)
(* SpecWorker, SpecJSON, SpecAsk); the variables of the other components   *)
(* keep their initial values.  Texts (titles, feedback, paths) are drawn   *)
(* from small sets; a summary is represented by its length; the texts      *)
(* parseJSON reads are sequences of characters.                            *)
(***************************************************************************)
EXTENDS Integers, Sequences, FiniteSets, TLC

VARIABLES
    subtasks,        \* ctx.subtasks: sequence of Subtask records
    pc,              \* runOrchestrator: the await point it is suspended at
    iteration,       \* runOrchestrator: the main loop's counter
    assignments,     \* runOrchestrator: the batch, subtask positions; worker i runs assignments[i+1]
    settled,         \* Promise.allSettled: per assignment "running" or the settled outcome
    verification,    \* runOrchestrator: verification.passed of this iteration ("none" before)
    fixPlanLen,      \* runOrchestrator: number of subtasks of the parsed fix plan (-1: not asked)
    events,          \* messageBus: the topics emitted so far
    outcome,         \* how runOrchestrator returned ("running" while it has not)
    batches,         \* history: the batches dispatched, as sequences of titles, while onlyAccepts
    onlyAccepts,     \* history: every review so far accepted exactly its batch
    failures,        \* history: per subtask position, the failed worker results applied
    checkpoint,      \* .swarm-checkpoint.json as saveCheckpoint last wrote it
    now,             \* Date.now()
    activeCount,     \* RateLimiter.activeCount
    callTimestamps,  \* RateLimiter.callTimestamps
    waitQueue,       \* RateLimiter.waitQueue: the callers whose resolve is queued
    maxConcurrent,   \* RateLimiter.maxConcurrent
    maxPerHour,      \* RateLimiter.maxPerHour
    rlpc,            \* per caller: where it is in acquire()/release()
    wakeAt,          \* per caller: when its sleep() timer fires
    locks,           \* FileLockManager.locks: key -> holder worker index
    waitQueues,      \* FileLockManager.waitQueues: key -> queued workers
    fpc,             \* per worker: where it is in its writer tool call
    ftool,           \* per worker: the tool it is running
    fpath,           \* per worker: args.path of the tool call
    acquired,        \* history: every timestamp acquire() recorded, never pruned
    calls,           \* history: the task-manager calls made, as [subtaskId, kind]
    lpc,             \* per transport call: where chatCompletion[Stream] is
    lfn,             \* per transport call: which of the two functions runs
    attempt,         \* per transport call: the retry loop's counter
    err,             \* per transport call: the catch clause's binding, None outside it
    acquires,        \* history, per transport call: limiter.acquire() calls made
    releases,        \* history, per transport call: limiter.release() calls made
    retries,         \* history, per transport call: llm:retry events emitted
    wpc,             \* runWorker: the await it is suspended at
    wid,             \* runWorker: subtask.id
    wstep,           \* runWorker: the tool loop's counter
    wmessages,       \* runWorker: the messages pushed after the two prompts
    wtoolCalls,      \* runWorker: assistantMessage.tool_calls being executed
    wnext,           \* runWorker: position of the for-of loop in tool_calls
    wresult,         \* runWorker: the WorkerResult returned, None before
    wllmCalls,       \* history: chatCompletionStream calls made
    winvoked,        \* history: the tool_call ids executeTool was invoked with
    jsonText,        \* the JSON text s handed to parseJSON between prelude and postlude
    jsonResult,      \* what parseJSON returned for it: None for null, else Some(value)
    askPc,           \* askOrchestrator: "idle", "summarizing", "calling", "returned", "threw"
    askAttempt,      \* the loop variable attempt of askOrchestrator
    orchestratorMessages, \* ctx.orchestratorMessages
    askCalls,        \* history: every chatCompletion call, with the messages it was given
    askReplies,      \* history: the content of every reply to the loop's calls
    askReturned,     \* the content askOrchestrator returned
    lastOp,          \* history: the last operation on the subtask collection
    opCount,         \* history: how many operations the collection has seen
    savedSubtasks,   \* history: ctx.subtasks when saveCheckpoint last ran
    fcalls,          \* history: how many write_file and patch_file calls were made
    fexit,           \* history: the worker and the exit path of the last such call to return
    planInput,       \* history: the plan last handed to addSubtasksFromPlan, None before
    planBase,        \* history: ctx.subtasks when that call began
    spc,             \* chatCompletionStream: the await it is suspended at
    sattempt,        \* chatCompletionStream: the loop variable attempt
    scontent,        \* chatCompletionStream: the local content of the current attempt
    stokens,         \* history: the chunks passed to onToken during the call
    sresponse,       \* the response the call returned, None before
    serverMode,      \* server.ts: the module's serverMode
    projectContext,  \* server.ts: whether projectContext is set
    plannerState,    \* server.ts: plannerState, "null", "empty" or "described"
    hpc,             \* server.ts: each handler invocation's await point
    runs             \* runOrchestrator/continueProject promises not settled

tmVars   == <<subtasks>>
orchLocals == <<pc, iteration, assignments, settled, verification, fixPlanLen,
                outcome, batches, onlyAccepts, failures, checkpoint>>
orchVars == <<orchLocals, events>>
rlVars   == <<now, activeCount, callTimestamps, waitQueue, maxConcurrent,
              maxPerHour, rlpc, wakeAt, acquired>>
flVars   == <<locks, waitQueues, fpc, ftool, fpath, fcalls, fexit>>
callVars == <<calls>>
llmVars  == <<lpc, lfn, attempt, err, acquires, releases, retries>>
workerVars == <<wpc, wid, wstep, wmessages, wtoolCalls, wnext, wresult, wllmCalls, winvoked>>
jsonVars == <<jsonText, jsonResult>>
askVars == <<askPc, askAttempt, orchestratorMessages, askCalls, askReplies, askReturned>>
ckptVars == <<lastOp, opCount, savedSubtasks>>
planVars == <<planInput, planBase>>
streamVars == <<spc, sattempt, scontent, stokens, sresponse>>
serverVars == <<serverMode, projectContext, plannerState, hpc, runs>>
vars     == <<tmVars, orchVars, rlVars, flVars, callVars, llmVars, workerVars, jsonVars, askVars, ckptVars, planVars, streamVars, serverVars>>

(***************************************************************************)
(* Values                                                                  *)
(***************************************************************************)
NULL == "null"
Undefined == "undefined"
NoWorker == -1
NoResult == -1
NaN == -1

MAX_SUBTASK_ATTEMPTS == 3
MAX_RETRIES == 3
RESULT_CAP == 2000
WORKER_COUNT == 3
HOUR_MS == 3600000
BUFFER_MS == 100

\* Model bounds.
ExtraAttempts == 1
MaxArtifacts == 1
IterationLimit == 4
MaxSubtasks == 3
NumCallers == 2
MaxC == 2
MaxH == 2
MaxHours == 1
MaxCalls == 6
MaxToolCalls == 4
MaxTokens == 3

\* Handler invocations suspended at an await at once, and the cap on the
\* orchestrator runs counted as in flight.
MaxHandlers == 2
MaxRuns == 2
MAX_WORKER_TOOL_LOOPS == 3

AttemptsCap == MAX_SUBTASK_ATTEMPTS + ExtraAttempts

Min(S) == CHOOSE x \in S : \A y \in S : x <= y
Max(S) == CHOOSE x \in S : \A y \in S : x >= y
Range(s) == {s[i] : i \in DOMAIN s}

(***************************************************************************)
(* TaskManager                                                             *)
(***************************************************************************)

\* Array.prototype.find on ctx.subtasks by id: the first position, 0 if none.
FindById(ss, id) ==
    LET hits == {i \in DOMAIN ss : ss[i].id = id}
    IN  IF hits = {} THEN 0 ELSE Min(hits)

\* ctx.subtasks.find((t) => t.title === dep): the first position, 0 if none.
FindByTitle(ss, title) ==
    LET hits == {i \in DOMAIN ss : ss[i].title = title}
    IN  IF hits = {} THEN 0 ELSE Min(hits)

\* uuidv4(): the k-th fresh id, different from every id the context mentions.
Uuid(ss, k) ==
    LET used == {ss[i].id : i \in DOMAIN ss}
                \cup UNION {Range(ss[i].dependencies) : i \in DOMAIN ss}
    IN  (IF used = {} THEN 0 ELSE Max(used)) + k

\* parseInt(dep, 10) on the dependency tokens the plans use.
Digits == <<"0", "1", "2", "3", "4", "5", "6", "7", "8", "9">>
\* Tokens that begin with a digit and go on with other characters: parseInt
\* reads the digits and stops at the first character that is none.
DigitLed == <<"0th", "1st", "2nd">>
ParseInt(tok) ==
    IF \E d \in DOMAIN Digits : Digits[d] = tok
    THEN (CHOOSE d \in DOMAIN Digits : Digits[d] = tok) - 1
    ELSE IF \E d \in DOMAIN DigitLed : DigitLed[d] = tok
    THEN (CHOOSE d \in DOMAIN DigitLed : DigitLed[d] = tok) - 1
    ELSE NaN

\* plan.subtasks.findIndex((t, j) => t.title === dep && j !== i), 0-based; -1 if none.
PlanMatch(plan, dep, i) ==
    LET hits == {j \in 0..(Len(plan) - 1) : plan[j + 1].title = dep /\ j # i}
    IN  IF hits = {} THEN -1 ELSE Min(hits)

\* The .map callback of addSubtasksFromPlan: the id a token resolves to, "" (here 0) if none.
ResolveDep(ss, plan, dep, i) ==
    LET planMatch == PlanMatch(plan, dep, i)
        existingMatch == FindByTitle(ss, dep)
        depIndex == ParseInt(dep)
    IN  IF planMatch # -1 THEN Uuid(ss, planMatch + 1)
        ELSE IF existingMatch # 0 THEN ss[existingMatch].id
        ELSE IF depIndex # NaN /\ depIndex \in 0..(Len(plan) - 1) THEN Uuid(ss, depIndex + 1)
        ELSE 0

\* .map(...).filter(Boolean) over one entry's dependency tokens.
RECURSIVE ResolveDeps(_, _, _, _)
ResolveDeps(ss, plan, deps, i) ==
    IF deps = <<>> THEN <<>>
    ELSE LET id == ResolveDep(ss, plan, Head(deps), i)
             rest == ResolveDeps(ss, plan, Tail(deps), i)
         IN  IF id = 0 THEN rest ELSE <<id>> \o rest

\* The Subtask pushed for plan entry i (0-based).
NewSubtask(ss, plan, i) ==
    [ id             |-> Uuid(ss, i + 1),
      title          |-> plan[i + 1].title,
      description    |-> plan[i + 1].description,
      dependencies   |-> ResolveDeps(ss, plan, plan[i + 1].dependencies, i),
      assignedWorker |-> NoWorker,
      status         |-> "pending",
      result         |-> NoResult,
      artifacts      |-> <<>>,
      attempts       |-> 0,
      feedback       |-> NULL ]

AddSubtasksFromPlanTo(ss, plan) ==
    ss \o [k \in 1..Len(plan) |-> NewSubtask(ss, plan, k - 1)]

\* An optional value: <<>> when it is undefined, <<v>> when it is v.
None == <<>>
Some(v) == <<v>>

\* addMoreSubtasks: `additional` is an optional plan.
AddMoreSubtasksTo(ss, additional) ==
    IF additional = None THEN ss ELSE AddSubtasksFromPlanTo(ss, additional[1])

\* A readiness test under which an id that matches no subtask counts as completed.
DepCompletedOrUnknown(ss, depId) ==
    LET dep == FindById(ss, depId)
    IN  dep = 0 \/ ss[dep].status = "completed"

\* A readiness test that does not look at the dependency.
DepNotLookedAt(ss, depId) == TRUE

\* The callback of getReadySubtasks' every(): dep?.status === 'completed'.
DepCompleted(ss, depId) ==
    LET dep == FindById(ss, depId)
    IN  dep # 0 /\ ss[dep].status = "completed"

\* getReadySubtasks(): the positions of the ready subtasks, in collection order.
RECURSIVE ReadyFrom(_, _)
ReadyFrom(ss, i) ==
    IF i > Len(ss) THEN <<>>
    ELSE IF ss[i].status = "pending"
            /\ \A k \in DOMAIN ss[i].dependencies : DepCompleted(ss, ss[i].dependencies[k])
         THEN <<i>> \o ReadyFrom(ss, i + 1)
         ELSE ReadyFrom(ss, i + 1)

GetReadySubtasks(ss) == ReadyFrom(ss, 1)

AllCompleted(ss) == \A i \in DOMAIN ss : ss[i].status = "completed"

AnyFailed(ss) ==
    \E i \in DOMAIN ss :
        ss[i].status = "failed" /\ ss[i].attempts >= MAX_SUBTASK_ATTEMPTS

\* result.summary.slice(0, 2000), on the summary's length.
Slice2000(len) == IF len > RESULT_CAP THEN RESULT_CAP ELSE len

\* An update that counts every worker run, successful ones included.
WorkerResultCountingRuns(t, result) ==
    [t EXCEPT !.result = Slice2000(result.summary),
              !.artifacts = t.artifacts \o result.artifacts,
              !.attempts = t.attempts + 1,
              !.status = IF result.status = "completed" THEN "completed"
                         ELSE IF t.attempts + 1 >= MAX_SUBTASK_ATTEMPTS THEN "failed"
                         ELSE "pending"]

\* An update that keeps the artifacts of the last run only.
WorkerResultReplacingArtifacts(t, result) ==
    LET stored == [t EXCEPT !.result = Slice2000(result.summary),
                            !.artifacts = result.artifacts]
    IN  IF result.status = "completed"
        THEN [stored EXCEPT !.status = "completed"]
        ELSE IF t.attempts + 1 >= MAX_SUBTASK_ATTEMPTS
             THEN [stored EXCEPT !.attempts = t.attempts + 1, !.status = "failed"]
             ELSE [stored EXCEPT !.attempts = t.attempts + 1,
                                 !.status = "pending",
                                 !.feedback = IF result.error = Undefined
                                              THEN "Worker failed, please retry"
                                              ELSE result.error]

\* applyWorkerResult's update of the subtask it found.
WorkerResultOn(t, result) ==
    LET stored == [t EXCEPT !.result = Slice2000(result.summary),
                            !.artifacts = t.artifacts \o result.artifacts]
    IN  IF result.status = "completed"
        THEN [stored EXCEPT !.status = "completed"]
        ELSE IF t.attempts + 1 >= MAX_SUBTASK_ATTEMPTS
             THEN [stored EXCEPT !.attempts = t.attempts + 1, !.status = "failed"]
             ELSE [stored EXCEPT !.attempts = t.attempts + 1,
                                 !.status = "pending",
                                 !.feedback = IF result.error = Undefined
                                              THEN "Worker failed, please retry"
                                              ELSE result.error]

\* A lookup that falls back on the first subtask when no id matches.
ApplyWorkerResultOrFirst(ss, result) ==
    LET i == FindById(ss, result.subtaskId)
    IN  IF ss = <<>> THEN ss
        ELSE IF i = 0 THEN [ss EXCEPT ![1] = WorkerResultOn(ss[1], result)]
        ELSE [ss EXCEPT ![i] = WorkerResultOn(ss[i], result)]

ApplyWorkerResultTo(ss, result) ==
    LET i == FindById(ss, result.subtaskId)
    IN  IF i = 0 THEN ss ELSE [ss EXCEPT ![i] = WorkerResultOn(ss[i], result)]

\* A switch whose reassign case counts as an attempt and keeps the worker.
ReviewDecisionReassignCounted(t, decision) ==
    CASE decision.verdict = "accept" -> [t EXCEPT !.status = "completed"]
      [] decision.verdict = "revise" ->
           [t EXCEPT !.status = IF t.attempts + 1 >= MAX_SUBTASK_ATTEMPTS
                                THEN "failed" ELSE "pending",
                     !.feedback = "Please revise your work.",
                     !.attempts = t.attempts + 1]
      [] decision.verdict = "reassign" ->
           [t EXCEPT !.status = "pending",
                     !.feedback = "Reassigned to a different worker.",
                     !.attempts = t.attempts + 1]
      [] OTHER -> t

\* The switch of applyReviewDecisions on the subtask it found.
ReviewDecisionOn(t, decision) ==
    CASE decision.verdict = "accept" ->
           [t EXCEPT !.status = "completed"]
      [] decision.verdict = "revise" ->
           [t EXCEPT !.status = IF t.attempts + 1 >= MAX_SUBTASK_ATTEMPTS
                                THEN "failed" ELSE "pending",
                     !.feedback = IF decision.feedback = Undefined
                                  THEN "Please revise your work."
                                  ELSE decision.feedback,
                     !.attempts = t.attempts + 1]
      [] decision.verdict = "reassign" ->
           [t EXCEPT !.status = "pending",
                     !.assignedWorker = NoWorker,
                     !.feedback = IF decision.feedback = Undefined
                                  THEN "Reassigned to a different worker."
                                  ELSE decision.feedback]
      [] OTHER -> t

RECURSIVE ApplyReviewDecisionsTo(_, _)
ApplyReviewDecisionsTo(ss, decisions) ==
    IF decisions = <<>> THEN ss
    ELSE LET i == FindById(ss, Head(decisions).subtaskId)
             next == IF i = 0 THEN ss
                     ELSE [ss EXCEPT ![i] = ReviewDecisionOn(ss[i], Head(decisions))]
         IN  ApplyReviewDecisionsTo(next, Tail(decisions))

\* JSON.stringify leaves out a property whose value is undefined and writes a
\* number that is NaN as null; JSON.parse gives the other values back as they
\* were.  An object read from the file is the function from the keys it has.
OptionalText == {"title", "description", "feedback"}
Written(subtask) ==
    {k \in DOMAIN subtask : ~(k \in OptionalText /\ subtask[k] = Undefined)}
JsonField(subtask, k) ==
    IF k = "attempts" /\ subtask[k] = NaN THEN NULL ELSE subtask[k]
\* JSON.parse(JSON.stringify(data)).subtasks, data.subtasks being ss.
JsonSubtasks(ss) ==
    [i \in DOMAIN ss |-> [k \in Written(ss[i]) |-> JsonField(ss[i], k)]]
\* subtask[k] as JavaScript reads it: undefined for a property that is absent.
Field(subtask, k) == IF k \in DOMAIN subtask THEN subtask[k] ELSE Undefined

\* A load that returns data.subtasks as the file has them.
LoadedSubtasksAsSaved(fileSubtasks) == fileSubtasks

\* loadCheckpoint's loop over data.subtasks.
LoadedSubtasks(fileSubtasks) ==
    [i \in DOMAIN fileSubtasks |->
        IF Field(fileSubtasks[i], "status") = "in_progress"
        THEN [fileSubtasks[i] EXCEPT !.status = "pending"]
        ELSE fileSubtasks[i]]

(***************************************************************************)
(* Inputs                                                                  *)
(***************************************************************************)
Entry(title, deps) == [title |-> title, description |-> "todo", dependencies |-> deps]

PlanSingle  == <<Entry("A", <<>>)>>
PlanChain   == <<Entry("A", <<>>), Entry("B", <<"A">>), Entry("C", <<"B">>)>>
PlanPair    == <<Entry("A", <<>>), Entry("B", <<>>)>>
PlanByIndex == <<Entry("A", <<>>), Entry("B", <<"0">>)>>
PlanSelf    == <<Entry("A", <<"0">>)>>
PlanFix     == <<Entry("Fix", <<"Z">>)>>

\* An id no subtask has.
UnknownId == 99

Subtask(id, title, deps, worker, status) ==
    [ id |-> id, title |-> title, description |-> "todo", dependencies |-> deps,
      assignedWorker |-> worker,
      status |-> status, result |-> NoResult, artifacts |-> <<>>, attempts |-> 0,
      feedback |-> NULL ]

\* Contents of .swarm-checkpoint.json (data.subtasks): a build interrupted while B
\* ran, and a file whose subtask names a dependency id that no subtask of the file has.
CkptInterrupted ==
    << [Subtask(1, "A", <<>>, 0, "completed") EXCEPT !.result = 10, !.attempts = 1],
       Subtask(2, "B", <<1>>, 0, "in_progress") >>
CkptDangling ==
    << Subtask(1, "A", <<7>>, NoWorker, "pending") >>
CheckpointFiles == {CkptInterrupted, CkptDangling}
\* A file with more independent pending subtasks than there are workers.
CkptWide ==
    [k \in 1..(WORKER_COUNT + 1) |->
        Subtask(k, <<"A", "B", "C", "D">>[k], <<>>, NoWorker, "pending")]

SummaryLens == {RESULT_CAP + 1}
ArtifactInputs == {<<>>, <<"a.ts">>}

Ids(ss) == {ss[i].id : i \in DOMAIN ss} \cup {UnknownId}

WorkerResults(ss) ==
    [subtaskId : Ids(ss), status : {"completed"}, summary : SummaryLens,
     artifacts : ArtifactInputs, error : {Undefined}]
    \cup
    [subtaskId : Ids(ss), status : {"failed"}, summary : SummaryLens,
     artifacts : ArtifactInputs, error : {Undefined, "boom"}]

Decisions(ss) ==
    [subtaskId : Ids(ss), verdict : {"accept", "revise", "reassign"},
     feedback : {Undefined, "fix X"}]

\* applyReviewDecisions handles its list one decision after the other and keeps
\* nothing between them, so a call with a list acts as the calls with its elements.
DecisionLists(ss, lens) ==
    UNION {[1..n -> Decisions(ss)] : n \in lens}

TMDecisionLens == {0, 1}

\* The model's bounds on what the operations may build.
WithinBounds(ss) ==
    \A i \in DOMAIN ss :
        /\ ss[i].attempts <= AttemptsCap
        /\ Len(ss[i].artifacts) <= MaxArtifacts

(***************************************************************************)
(* SpecTM: any sequence of task-manager calls on one context               *)
(***************************************************************************)
TMPlans == {PlanSingle, PlanByIndex, PlanSelf}

\* What a TaskManager operation leaves alone.
TMFrame == UNCHANGED <<orchVars, rlVars, flVars, callVars, llmVars, workerVars, jsonVars, askVars, ckptVars, planVars, streamVars, serverVars>>

TMLoadCheckpoint(file) ==
    /\ subtasks = <<>>
    /\ subtasks' = LoadedSubtasks(file)
    /\ TMFrame

TMAddSubtasksFromPlan(plan) ==
    /\ subtasks = <<>>
    /\ subtasks' = AddSubtasksFromPlanTo(subtasks, plan)
    /\ TMFrame

TMApplyWorkerResult(result) ==
    /\ subtasks' = ApplyWorkerResultTo(subtasks, result)
    /\ WithinBounds(subtasks')
    /\ TMFrame

TMApplyReviewDecisions(decisions) ==
    /\ subtasks' = ApplyReviewDecisionsTo(subtasks, decisions)
    /\ WithinBounds(subtasks')
    /\ TMFrame

TMInit == subtasks = <<>>

TMNext ==
    \/ \E file \in CheckpointFiles : TMLoadCheckpoint(file)
    \/ \E plan \in TMPlans : TMAddSubtasksFromPlan(plan)
    \/ \E result \in WorkerResults(subtasks) : TMApplyWorkerResult(result)
    \/ \E decisions \in DecisionLists(subtasks, TMDecisionLens) : TMApplyReviewDecisions(decisions)

(***************************************************************************)
(* SpecPlan: addSubtasksFromPlan on every plan of one or two entries, in   *)
(* an empty context or after an earlier plan.                              *)
(***************************************************************************)
PlanFrame == UNCHANGED <<orchVars, rlVars, flVars, callVars, llmVars, workerVars, jsonVars, askVars, ckptVars, streamVars, serverVars>>

PlanTitles == {"A", "B", "1"}
PlanTokens == {"A", "B", "X", "0", "1", "5", "1st"}
PlanDependencies == {<<>>} \cup {<<tok>> : tok \in PlanTokens}
PlanEntries == {Entry(title, deps) : title \in PlanTitles, deps \in PlanDependencies}
Plans == {<<e>> : e \in PlanEntries} \cup {<<e, f>> : e \in PlanEntries, f \in PlanEntries}

\* The plans that made the subtasks the context already holds.
EarlierPlans == {PlanSingle, <<Entry("X", <<>>)>>, <<Entry("0", <<>>), Entry("1", <<>>)>>}

\* addSubtasksFromPlan ran before: the context holds subtasks.
PlanEarlier(plan) ==
    /\ subtasks = <<>>
    /\ planInput = None
    /\ subtasks' = AddSubtasksFromPlanTo(subtasks, plan)
    /\ UNCHANGED planVars
    /\ PlanFrame

\* addSubtasksFromPlan(plan), lines 8-49.
PlanAdd(plan) ==
    /\ planInput = None
    /\ planInput' = Some(plan)
    /\ planBase' = subtasks
    /\ subtasks' = AddSubtasksFromPlanTo(subtasks, plan)
    /\ PlanFrame

PlanInit ==
    /\ planInput = None
    /\ planBase = <<>>

PlanNext ==
    \/ \E plan \in EarlierPlans : PlanEarlier(plan)
    \/ \E plan \in Plans : PlanAdd(plan)

(***************************************************************************)
(* SpecOrch: one run of runOrchestrator, one action per stretch of code    *)
(* between two awaits.  The replies of the LLM, the verifier and the       *)
(* workers are inputs.                                                     *)
(***************************************************************************)
OrchPlans == {PlanSingle, PlanChain, PlanPair, PlanSelf}

\* What the orchestrator leaves alone.
OrchFrame == UNCHANGED <<rlVars, flVars, callVars, llmVars, workerVars, jsonVars, askVars, ckptVars, planVars, streamVars, serverVars>>
\* parseJSON<TaskPlan>(planResponse): null, or a plan (possibly without subtasks).
PlanReplies == OrchPlans \cup {<<>>}
\* The fix plan and the final review's additionalSubtasks.
MorePlans == {PlanFix}

Emit(topics) == events' = events \cup topics

\* A loop whose `continue` and whose body's end leave the counter alone.
LoopIncrementSkipped(n) == n

\* Line 509: iteration++, at the end of the body and on every `continue`.
LoopIncrement(n) == n + 1

\* saveCheckpoint(ctx), ctx.subtasks being ss.
SaveCheckpoint(ss) == checkpoint' = [exists |-> TRUE, subtasks |-> JsonSubtasks(ss)]

Return(how) ==
    /\ pc' = "returned"
    /\ outcome' = how

\* index.ts / server.ts: loadCheckpoint(dir) before runOrchestrator(ctx).
OrchLoadCheckpoint(file) ==
    /\ pc = "start"
    /\ subtasks = <<>>
    /\ subtasks' = LoadedSubtasks(file)
    /\ UNCHANGED orchVars
    /\ UNCHANGED failures
    /\ OrchFrame

\* runOrchestrator up to the first await (lines 442-490), or to the main loop on resume.
OrchStart ==
    /\ pc = "start"
    /\ IF Len(subtasks) > 0
       THEN /\ pc' = "loop"
            /\ Emit({"orchestrator:phase"})
            /\ SaveCheckpoint(subtasks)
       ELSE /\ pc' = "planning"
            /\ UNCHANGED <<events, checkpoint>>
    /\ UNCHANGED <<subtasks, iteration, assignments, settled, verification,
                   fixPlanLen, outcome, batches, onlyAccepts>>
    /\ UNCHANGED failures
    /\ OrchFrame

\* Lines 492-506: the plan reply.
OrchPlan(plan) ==
    /\ pc = "planning"
    /\ IF Len(plan) = 0
       THEN /\ Return("plan_failed")
            /\ UNCHANGED <<subtasks, events, checkpoint>>
       ELSE /\ subtasks' = AddSubtasksFromPlanTo(subtasks, plan)
            /\ Emit({"orchestrator:plan", "orchestrator:phase"})
            /\ SaveCheckpoint(subtasks')
            /\ pc' = "loop"
            /\ UNCHANGED outcome
    /\ UNCHANGED <<iteration, assignments, settled, verification, fixPlanLen,
                   batches, onlyAccepts>>
    /\ UNCHANGED failures
    /\ OrchFrame

\* A loop head that looks for failed subtasks before it looks for ready ones.
BranchFailedFirst(ss) ==
    LET ready == GetReadySubtasks(ss)
    IN  IF Len(ready) = 0 /\ AllCompleted(ss) THEN "verify"
        ELSE IF AnyFailed(ss) THEN "failed"
        ELSE IF Len(ready) = 0 THEN "deadlock"
        ELSE "dispatch"

\* The branch a main-loop iteration takes (lines 510-513, 571-583).
Branch(ss) ==
    LET ready == GetReadySubtasks(ss)
    IN  IF Len(ready) = 0 /\ AllCompleted(ss) THEN "verify"
        ELSE IF Len(ready) = 0
             THEN IF AnyFailed(ss) THEN "failed" ELSE "deadlock"
             ELSE "dispatch"

\* A batch of every ready subtask.
BatchUnsliced(ss) == GetReadySubtasks(ss)

\* const batch = ready.slice(0, 3)
Batch(ss) ==
    LET ready == GetReadySubtasks(ss)
    IN  SubSeq(ready, 1, IF Len(ready) < WORKER_COUNT THEN Len(ready) ELSE WORKER_COUNT)

\* Lines 585-589: every subtask of the batch in_progress, worker i for the i-th.
Dispatched(ss, batch) ==
    [k \in DOMAIN ss |->
        IF \E i \in DOMAIN batch : batch[i] = k
        THEN [ss[k] EXCEPT !.status = "in_progress",
                           !.assignedWorker = (CHOOSE i \in DOMAIN batch : batch[i] = k) - 1]
        ELSE ss[k]]

\* Lines 668-670: the loop is exhausted.
OrchExhausted ==
    /\ pc = "loop"
    /\ iteration >= IterationLimit
    /\ SaveCheckpoint(subtasks)
    /\ Return("max_iterations")
    /\ UNCHANGED <<subtasks, iteration, assignments, settled, verification,
                   fixPlanLen, events, batches, onlyAccepts>>
    /\ UNCHANGED failures
    /\ OrchFrame

\* Lines 513-518: all completed, the verifier is started.
OrchToVerify ==
    /\ pc = "loop"
    /\ iteration < IterationLimit
    /\ Branch(subtasks) = "verify"
    /\ Emit({"orchestrator:phase"})
    /\ pc' = "verifying"
    /\ verification' = "none"
    /\ fixPlanLen' = -1
    /\ UNCHANGED <<subtasks, iteration, assignments, settled, outcome, batches,
                   onlyAccepts, checkpoint>>
    /\ UNCHANGED failures
    /\ OrchFrame

\* Lines 571-581: nothing ready, not all completed.
OrchStuck ==
    /\ pc = "loop"
    /\ iteration < IterationLimit
    /\ Branch(subtasks) \in {"failed", "deadlock"}
    /\ SaveCheckpoint(subtasks)
    /\ Return(IF Branch(subtasks) = "failed" THEN "failed_max_attempts" ELSE "deadlock")
    /\ UNCHANGED <<subtasks, iteration, assignments, settled, verification,
                   fixPlanLen, events, batches, onlyAccepts>>
    /\ UNCHANGED failures
    /\ OrchFrame

\* A dispatch that saves a checkpoint once the batch is marked.
OrchDispatchSaved ==
    /\ pc = "loop"
    /\ iteration < IterationLimit
    /\ Branch(subtasks) = "dispatch"
    /\ LET batch == Batch(subtasks)
       IN  /\ subtasks' = Dispatched(subtasks, batch)
           /\ assignments' = batch
           /\ settled' = [i \in DOMAIN batch |-> [state |-> "running"]]
           /\ batches' = IF onlyAccepts
                         THEN Append(batches, [i \in DOMAIN batch |-> subtasks[batch[i]].title])
                         ELSE batches
    /\ Emit({"orchestrator:phase", "subtask:assigned"})
    /\ pc' = "workers"
    /\ SaveCheckpoint(subtasks')
    /\ UNCHANGED <<iteration, verification, fixPlanLen, outcome, onlyAccepts>>
    /\ UNCHANGED failures
    /\ OrchFrame

\* Lines 584-601: the batch is marked and its workers are launched.
OrchDispatch ==
    /\ pc = "loop"
    /\ iteration < IterationLimit
    /\ Branch(subtasks) = "dispatch"
    /\ LET batch == Batch(subtasks)
       IN  /\ subtasks' = Dispatched(subtasks, batch)
           /\ assignments' = batch
           /\ settled' = [i \in DOMAIN batch |-> [state |-> "running"]]
           /\ batches' = IF onlyAccepts
                         THEN Append(batches, [i \in DOMAIN batch |-> subtasks[batch[i]].title])
                         ELSE batches
    /\ Emit({"orchestrator:phase", "subtask:assigned"})
    /\ pc' = "workers"
    /\ UNCHANGED <<iteration, verification, fixPlanLen, outcome, onlyAccepts, checkpoint>>
    /\ UNCHANGED failures
    /\ OrchFrame

\* What a worker's promise can settle to: runWorker's WorkerResult, or a rejection.
WorkerOutcomes ==
    [state : {"fulfilled"}, status : {"completed"}, artifacts : {<<>>}, error : {Undefined}]
    \cup [state : {"fulfilled"}, status : {"failed"}, artifacts : {<<>>}, error : {"boom"}]
    \cup [state : {"rejected"}, reason : {"crash"}]

\* A mapping of the settled promises that reports a crashed worker as completed.
ResultOfCrashCompleted(subtaskId, o) ==
    [ subtaskId |-> subtaskId,
      status    |-> IF o.state = "fulfilled" THEN o.status ELSE "completed",
      summary   |-> RESULT_CAP + 1,
      artifacts |-> IF o.state = "fulfilled" THEN o.artifacts ELSE <<>>,
      error     |-> IF o.state = "fulfilled" THEN o.error ELSE Undefined ]

\* Lines 603-614: the WorkerResult of a settled promise of the subtask with this
\* id: the value runWorker returned, or the failed result made up for a rejection.
ResultOf(subtaskId, o) ==
    IF o.state = "fulfilled"
    THEN [ subtaskId |-> subtaskId,
           status    |-> o.status,
           summary   |-> RESULT_CAP + 1,
           artifacts |-> o.artifacts,
           error     |-> o.error ]
    ELSE [ subtaskId |-> subtaskId,
           status    |-> "failed",
           summary   |-> RESULT_CAP + 1,
           artifacts |-> <<>>,
           error     |-> o.reason ]

\* Lines 618-626: applyWorkerResult for each result, in the batch's order.
RECURSIVE ApplyResultsFrom(_, _, _, _)
ApplyResultsFrom(ss, batch, outcomes, i) ==
    IF i > Len(batch) THEN ss
    ELSE ApplyResultsFrom(ApplyWorkerResultTo(ss, ResultOf(ss[batch[i]].id, outcomes[i])),
                          batch, outcomes, i + 1)

\* A join that applies each worker's result as soon as that worker settles.
OrchWorkerSettlesApplied(i, o) ==
    /\ pc = "workers"
    /\ settled[i].state = "running"
    /\ subtasks' = ApplyWorkerResultTo(subtasks, ResultOf(subtasks[assignments[i]].id, o))
    /\ WithinBounds(subtasks')
    /\ settled' = [settled EXCEPT ![i] = o]
    /\ UNCHANGED <<pc, iteration, assignments, verification, fixPlanLen,
                   events, outcome, batches, onlyAccepts, checkpoint>>
    /\ UNCHANGED failures
    /\ OrchFrame

\* One worker of the batch settles (runWorker returns or throws).
OrchWorkerSettles(i, o) ==
    /\ pc = "workers"
    /\ settled[i].state = "running"
    /\ WithinBounds(<<WorkerResultOn(subtasks[assignments[i]],
                                     ResultOf(subtasks[assignments[i]].id, o))>>)
    /\ settled' = [settled EXCEPT ![i] = o]
    /\ UNCHANGED <<subtasks, pc, iteration, assignments, verification, fixPlanLen,
                   events, outcome, batches, onlyAccepts, checkpoint>>
    /\ UNCHANGED failures
    /\ OrchFrame

\* The failed worker results applied so far to the subtask at position k.
FailuresOf(k) == IF k \in DOMAIN failures THEN failures[k] ELSE 0

\* Lines 603-642: all settled; the results are applied and the review is asked for.
OrchApplyResults ==
    /\ pc = "workers"
    /\ \A i \in DOMAIN settled : settled[i].state # "running"
    /\ subtasks' = ApplyResultsFrom(subtasks, assignments, settled, 1)
    /\ Emit({"subtask:completed", "orchestrator:phase"})
    /\ SaveCheckpoint(subtasks')
    /\ pc' = "reviewing"
    /\ settled' = <<>>
    /\ failures' = [k \in DOMAIN subtasks |->
                        FailuresOf(k) + Cardinality({i \in DOMAIN assignments :
                            /\ assignments[i] = k
                            /\ ResultOf(subtasks[k].id, settled[i]).status = "failed"})]
    /\ UNCHANGED <<iteration, assignments, verification, fixPlanLen,
                   outcome, batches, onlyAccepts>>
    /\ OrchFrame

\* The review that accepts every subtask of the batch.
AcceptBatch(ss, batch) ==
    [i \in DOMAIN batch |->
        [subtaskId |-> ss[batch[i]].id, verdict |-> "accept", feedback |-> Undefined]]

OrchDecisionLens == {0, 1}
\* parseJSON(reviewResponse)?.decisions: Undefined (no decisions parsed) or a list.
ReviewReplies(ss, batch) ==
    {d \in DecisionLists(ss, OrchDecisionLens) : \A k \in DOMAIN d : d[k].feedback = Undefined}
    \cup {AcceptBatch(ss, batch)}

\* Lines 644-666: a review without decisions; the iteration ends.
OrchReviewUnparsed ==
    /\ pc = "reviewing"
    /\ SaveCheckpoint(subtasks)
    /\ Emit({"orchestrator:iteration"})
    /\ iteration' = LoopIncrement(iteration)
    /\ onlyAccepts' = FALSE
    /\ batches' = <<>>
    /\ assignments' = <<>>
    /\ pc' = "loop"
    /\ UNCHANGED <<subtasks, settled, verification, fixPlanLen, outcome>>
    /\ UNCHANGED failures
    /\ OrchFrame

\* Lines 644-666: the decisions are applied; the iteration ends.
OrchReview(decisions) ==
    /\ pc = "reviewing"
    /\ subtasks' = ApplyReviewDecisionsTo(subtasks, decisions)
    /\ WithinBounds(subtasks')
    /\ SaveCheckpoint(subtasks')
    /\ Emit({"orchestrator:review", "orchestrator:iteration"})
    /\ iteration' = LoopIncrement(iteration)
    /\ onlyAccepts' = (onlyAccepts /\ decisions = AcceptBatch(subtasks, assignments))
    /\ batches' = IF onlyAccepts' THEN batches ELSE <<>>
    /\ assignments' = <<>>
    /\ pc' = "loop"
    /\ UNCHANGED <<settled, verification, fixPlanLen, outcome>>
    /\ UNCHANGED failures
    /\ OrchFrame

\* Lines 518-526, 538-545: the verifier's result.
OrchVerify(passed) ==
    /\ pc = "verifying"
    /\ verification' = IF passed THEN "passed" ELSE "failed"
    /\ IF passed
       THEN /\ Emit({"orchestrator:phase"})
            /\ pc' = "final_review"
       ELSE /\ pc' = "fix_planning"
            /\ UNCHANGED events
    /\ UNCHANGED <<subtasks, iteration, assignments, settled, fixPlanLen, outcome,
                   batches, onlyAccepts, checkpoint>>
    /\ UNCHANGED failures
    /\ OrchFrame

\* Lines 527-545: the fix plan; without subtasks the final review is asked for.
OrchFixPlan(fixPlan) ==
    /\ pc = "fix_planning"
    /\ Len(subtasks) + Len(fixPlan) <= MaxSubtasks
    /\ fixPlanLen' = Len(fixPlan)
    /\ IF Len(fixPlan) > 0
       THEN /\ subtasks' = AddMoreSubtasksTo(subtasks, Some(fixPlan))
            /\ SaveCheckpoint(subtasks')
            /\ iteration' = LoopIncrement(iteration)
            /\ pc' = "loop"
            /\ UNCHANGED events
       ELSE /\ Emit({"orchestrator:phase"})
            /\ pc' = "final_review"
            /\ UNCHANGED <<subtasks, checkpoint, iteration>>
    /\ UNCHANGED <<assignments, settled, verification, outcome, batches, onlyAccepts>>
    /\ UNCHANGED failures
    /\ OrchFrame

\* parseJSON<FinalReview>(finalResponse): null, or its status and additionalSubtasks.
FinalReplies ==
    {[status |-> "unparseable", additional |-> None],
     [status |-> "done", additional |-> None],
     [status |-> "needs_more", additional |-> None],
     [status |-> "needs_more", additional |-> Some(<<>>)]}
    \cup {[status |-> "needs_more", additional |-> Some(plan)] : plan \in MorePlans}

\* Lines 547-567: the final review.
OrchFinalReview(reply) ==
    /\ pc = "final_review"
    /\ reply.additional # None => Len(subtasks) + Len(reply.additional[1]) <= MaxSubtasks
    /\ IF reply.status = "done"
       THEN /\ SaveCheckpoint(subtasks)
            /\ Emit({"project:done"})
            /\ Return("done")
            /\ UNCHANGED <<subtasks, iteration>>
       ELSE IF reply.status = "needs_more" /\ reply.additional # None
       THEN /\ subtasks' = AddMoreSubtasksTo(subtasks, reply.additional)
            /\ SaveCheckpoint(subtasks')
            /\ iteration' = LoopIncrement(iteration)
            /\ pc' = "loop"
            /\ UNCHANGED <<events, outcome>>
       ELSE /\ SaveCheckpoint(subtasks)
            /\ Return("stopped")
            /\ UNCHANGED <<subtasks, iteration, events>>
    /\ UNCHANGED <<assignments, settled, verification, fixPlanLen, batches, onlyAccepts>>
    /\ UNCHANGED failures
    /\ OrchFrame

OrchInit ==
    /\ pc = "start"
    /\ iteration = 0
    /\ assignments = <<>>
    /\ settled = <<>>
    /\ verification = "none"
    /\ fixPlanLen = -1
    /\ events = {}
    /\ outcome = "running"
    /\ batches = <<>>
    /\ onlyAccepts = TRUE
    /\ failures = <<>>
    /\ checkpoint = [exists |-> FALSE, subtasks |-> <<>>]

OrchNext ==
    \/ \E file \in CheckpointFiles : OrchLoadCheckpoint(file)
    \/ OrchStart
    \/ \E plan \in PlanReplies : OrchPlan(plan)
    \/ OrchExhausted
    \/ OrchToVerify
    \/ OrchStuck
    \/ OrchDispatch
    \/ \E i \in DOMAIN settled : \E o \in WorkerOutcomes : OrchWorkerSettles(i, o)
    \/ OrchApplyResults
    \/ OrchReviewUnparsed
    \/ \E decisions \in ReviewReplies(subtasks, assignments) : OrchReview(decisions)
    \/ \E passed \in BOOLEAN : OrchVerify(passed)
    \/ \E fixPlan \in MorePlans \cup {<<>>} : OrchFixPlan(fixPlan)
    \/ \E reply \in FinalReplies : OrchFinalReview(reply)

(***************************************************************************)
(* SpecLoop: a run on a plan of one subtask, every await returning         *)
(***************************************************************************)
LoopNext ==
    \/ OrchStart
    \/ \E plan \in {PlanSingle, <<>>} : OrchPlan(plan)
    \/ OrchExhausted
    \/ OrchToVerify
    \/ OrchStuck
    \/ OrchDispatch
    \/ \E i \in DOMAIN settled : \E o \in WorkerOutcomes : OrchWorkerSettles(i, o)
    \/ OrchApplyResults
    \/ OrchReviewUnparsed
    \/ \E decisions \in ReviewReplies(subtasks, assignments) : OrchReview(decisions)
    \/ \E passed \in BOOLEAN : OrchVerify(passed)
    \/ \E fixPlan \in MorePlans \cup {<<>>} : OrchFixPlan(fixPlan)
    \/ \E reply \in FinalReplies : OrchFinalReview(reply)

(***************************************************************************)
(* SpecBatch: the dispatch loop resumed on more ready subtasks than workers *)
(***************************************************************************)
\* The reviews of a batch: all accepted, or one verdict on its first subtask.
BatchReviews(ss, batch) ==
    {AcceptBatch(ss, batch)}
    \cup {<<[subtaskId |-> ss[batch[i]].id, verdict |-> verdict, feedback |-> Undefined]>> :
            i \in DOMAIN batch \cap {1}, verdict \in {"revise", "reassign"}}

BatchNext ==
    \/ OrchLoadCheckpoint(CkptWide)
    \/ OrchStart
    \/ OrchExhausted
    \/ OrchToVerify
    \/ OrchStuck
    \/ OrchDispatch
    \/ \E i \in DOMAIN settled : \E o \in WorkerOutcomes : OrchWorkerSettles(i, o)
    \/ OrchApplyResults
    \/ OrchReviewUnparsed
    \/ \E decisions \in BatchReviews(subtasks, assignments) : OrchReview(decisions)

(***************************************************************************)
(* RateLimiter: SpecRL.  A caller is suspended at `await new Promise`      *)
(* ("waiting", its resolve is in waitQueue; "woken" once resolved), at     *)
(* `await this.sleep` ("sleeping") or holds a slot ("holding").            *)
(***************************************************************************)
Callers == 1..NumCallers

\* What the limiter leaves alone.
RLFrame == UNCHANGED <<tmVars, orchLocals, flVars, callVars, llmVars, workerVars, jsonVars, askVars, ckptVars, planVars, streamVars, serverVars>>

\* The values Date.now() takes: whole hours, and one buffer after them.
Instants == {h * HOUR_MS + b * BUFFER_MS : h \in 0..MaxHours, b \in {0, 1}}

\* A pruning that forgets every timestamp.
PruneEverything(ts, t) == <<>>

\* pruneOldTimestamps() at time t.
RECURSIVE PruneOldTimestamps(_, _)
PruneOldTimestamps(ts, t) ==
    IF Len(ts) > 0 /\ ts[1] < t - HOUR_MS
    THEN PruneOldTimestamps(Tail(ts), t)
    ELSE ts

\* An hourly loop that lets every caller through.
HourlyLoopNeverSleeps(ts, t, h) == [sleep |-> FALSE, waitMs |-> 0, ts |-> ts]

\* Lines 26-34 from the loop test on, the timestamps being ts: sleep, or fall through.
RECURSIVE HourlyLoop(_, _, _)
HourlyLoop(ts, t, h) ==
    IF Len(ts) >= h
    THEN LET waitMs == ts[1] + HOUR_MS - t + BUFFER_MS
         IN  IF waitMs > 0
             THEN [sleep |-> TRUE, waitMs |-> waitMs, ts |-> ts]
             ELSE HourlyLoop(PruneOldTimestamps(ts, t), t, h)
    ELSE [sleep |-> FALSE, waitMs |-> 0, ts |-> ts]

\* The limiter's fields, the callers' positions and the bus, as one value.
LimiterState ==
    [ activeCount |-> activeCount, callTimestamps |-> callTimestamps,
      waitQueue |-> waitQueue, rlpc |-> rlpc, wakeAt |-> wakeAt,
      acquired |-> acquired, events |-> events ]

SetLimiter(st) ==
    /\ activeCount' = st.activeCount
    /\ callTimestamps' = st.callTimestamps
    /\ waitQueue' = st.waitQueue
    /\ rlpc' = st.rlpc
    /\ wakeAt' = st.wakeAt
    /\ acquired' = st.acquired
    /\ events' = st.events

\* Lines 24-37 from state st: prune, then the hourly loop; caller c sleeps or is admitted.
HourlyGated(st, c) ==
    LET r == HourlyLoop(PruneOldTimestamps(st.callTimestamps, now), now, maxPerHour)
    IN  IF r.sleep
        THEN [st EXCEPT !.events = @ \cup {"rate-limit:wait"},
                        !.wakeAt = [@ EXCEPT ![c] = now + r.waitMs],
                        !.rlpc = [@ EXCEPT ![c] = "sleeping"],
                        !.callTimestamps = r.ts]
        ELSE [st EXCEPT !.activeCount = @ + 1,
                        !.callTimestamps = Append(r.ts, now),
                        !.acquired = Append(@, now),
                        !.rlpc = [@ EXCEPT ![c] = "holding"]]

\* Lines 18-22 from state st: the concurrency loop's test; c queues its resolve or goes on.
ConcurrencyGated(st, c) ==
    IF st.activeCount >= maxConcurrent
    THEN [st EXCEPT !.waitQueue = Append(@, c),
                    !.rlpc = [@ EXCEPT ![c] = "waiting"]]
    ELSE HourlyGated(st, c)

\* A release() that wakes nobody.
ReleasedWithoutWake(st, c) ==
    [st EXCEPT !.activeCount = @ - 1,
               !.rlpc = [@ EXCEPT ![c] = "idle"]]

\* release() from state st, by caller c.
Released(st, c) ==
    IF Len(st.waitQueue) > 0
    THEN [st EXCEPT !.activeCount = @ - 1,
                    !.waitQueue = Tail(@),
                    !.rlpc = [@ EXCEPT ![c] = "idle", ![Head(st.waitQueue)] = "woken"]]
    ELSE [st EXCEPT !.activeCount = @ - 1,
                    !.rlpc = [@ EXCEPT ![c] = "idle"]]

\* Lines 24-37: prune, then the hourly loop; the caller sleeps or is admitted.
HourlyGate(c) == SetLimiter(HourlyGated(LimiterState, c))

\* Lines 18-22: the concurrency loop's test; the caller queues its resolve or goes on.
ConcurrencyGate(c) == SetLimiter(ConcurrencyGated(LimiterState, c))

\* acquire() is called.
RLAcquire(c) ==
    /\ rlpc[c] = "idle"
    /\ ConcurrencyGate(c)
    /\ UNCHANGED <<now, maxConcurrent, maxPerHour>>
    /\ RLFrame

\* A caller whose promise release() resolved runs on: the loop test again.
RLResume(c) ==
    /\ rlpc[c] = "woken"
    /\ ConcurrencyGate(c)
    /\ UNCHANGED <<now, maxConcurrent, maxPerHour>>
    /\ RLFrame

\* The sleep timer of a caller fires: line 33, then the hourly loop's test.
RLTimer(c) ==
    /\ rlpc[c] = "sleeping"
    /\ now >= wakeAt[c]
    /\ HourlyGate(c)
    /\ UNCHANGED <<now, maxConcurrent, maxPerHour>>
    /\ RLFrame

\* release(), by a caller whose acquire() returned.
RLRelease(c) ==
    /\ rlpc[c] = "holding"
    /\ SetLimiter(Released(LimiterState, c))
    /\ UNCHANGED <<now, maxConcurrent, maxPerHour>>
    /\ RLFrame

\* Time passes.
RLTick(t) ==
    /\ t > now
    /\ now' = t
    /\ UNCHANGED <<activeCount, callTimestamps, waitQueue, maxConcurrent, maxPerHour,
                   rlpc, wakeAt, events, acquired>>
    /\ RLFrame

\* new RateLimiter(c, h), none of its callers there yet.
RLInitFor(callers, c, h) ==
    /\ now = 0
    /\ activeCount = 0
    /\ callTimestamps = <<>>
    /\ waitQueue = <<>>
    /\ maxConcurrent = c
    /\ maxPerHour = h
    /\ rlpc = [x \in callers |-> "idle"]
    /\ wakeAt = [x \in callers |-> 0]
    /\ acquired = <<>>

RLInitWith(c, h) == RLInitFor(Callers, c, h)

\* SpecQueue: three callers and up contend for the slots of a limiter whose
\* hourly limit leaves room for MaxCalls calls; no time passes.
QueueCallers == 1..(NumCallers + 1)

QueueNext ==
    \/ \E c \in QueueCallers : RLAcquire(c)
    \/ \E c \in QueueCallers : RLResume(c)
    \/ \E c \in QueueCallers : RLRelease(c)

RLNext ==
    \/ \E c \in Callers : RLAcquire(c)
    \/ \E c \in Callers : RLResume(c)
    \/ \E c \in Callers : RLTimer(c)
    \/ \E c \in Callers : RLRelease(c)
    \/ \E t \in Instants : RLTick(t)

(***************************************************************************)
(* FileLockManager and the writer tools: SpecFL.  A path is the sequence   *)
(* of its segments.  A worker is "idle", suspended in acquire ("waiting",  *)
(* "woken" once release resolved its promise) or suspended on the file     *)
(* system inside the tool's try block ("writing").                         *)
(***************************************************************************)
Workers == 0..(WORKER_COUNT - 1)

\* What the lock manager and the writer tools leave alone.
FLFrame == UNCHANGED <<tmVars, orchVars, rlVars, callVars, llmVars, workerVars, jsonVars, askVars, ckptVars, planVars, streamVars, serverVars>>
Tools == {"write_file", "patch_file"}
ProjectRoot == <<"proj">>
PathArgs == {<<"a.ts">>, <<"A.ts">>, <<".", "a.ts">>, <<"..", "x">>}

\* String.prototype.toLowerCase on the segments in use.
LowerSegment(seg) == IF seg = "A.ts" THEN "a.ts" ELSE seg
ToLowerCase(path) == [i \in DOMAIN path |-> LowerSegment(path[i])]

\* path.resolve(root, relativePath): "." is dropped, ".." removes the segment before it.
RECURSIVE PathResolve(_, _)
PathResolve(base, rel) ==
    IF rel = <<>> THEN base
    ELSE IF Head(rel) = "." THEN PathResolve(base, Tail(rel))
    ELSE IF Head(rel) = ".."
         THEN PathResolve(IF base = <<>> THEN base ELSE SubSeq(base, 1, Len(base) - 1),
                          Tail(rel))
    ELSE PathResolve(Append(base, Head(rel)), Tail(rel))

\* resolved.startsWith(normalizedRoot)
StartsWith(path, prefix) ==
    Len(path) >= Len(prefix) /\ SubSeq(path, 1, Len(prefix)) = prefix

\* resolveSafe does not throw.
ResolvesInside(rel) == StartsWith(PathResolve(ProjectRoot, rel), ProjectRoot)

\* The argument each tool passes to fileLockManager.acquire and release.
WriteFileLockArg(rel) == rel
PatchFileLockArg(rel) == PathResolve(ProjectRoot, rel)
LockArg(tool, rel) ==
    IF tool = "write_file" THEN WriteFileLockArg(rel) ELSE PatchFileLockArg(rel)

\* const normalized = filePath.toLowerCase()
LockKey(tool, rel) == ToLowerCase(LockArg(tool, rel))

LockKeys == {LockKey(tool, rel) : tool \in Tools, rel \in PathArgs}

NoLock == [workerIndex |-> NoWorker, acquiredAt |-> 0]

\* The worker and the exit path of a tool call that returned.
Exit(w, how) == [worker |-> w, how |-> how]
ExitKinds == {"written", "patched", "not_found", "multiple_matches", "io_error", "rejected"}

\* Lines 13-26 of acquire, from the loop test on.
FLAcquireLoop(w, key) ==
    IF locks[key] # NoLock
    THEN IF locks[key].workerIndex = w
         THEN /\ fpc' = [fpc EXCEPT ![w] = "writing"]
              /\ UNCHANGED <<locks, waitQueues>>
         ELSE /\ waitQueues' = [waitQueues EXCEPT ![key] = Append(@, w)]
              /\ fpc' = [fpc EXCEPT ![w] = "waiting"]
              /\ UNCHANGED locks
    ELSE /\ locks' = [locks EXCEPT ![key] = [workerIndex |-> w, acquiredAt |-> now]]
         /\ fpc' = [fpc EXCEPT ![w] = "writing"]
         /\ UNCHANGED waitQueues

\* A worker calls write_file or patch_file: resolveSafe, then acquire.
FLToolCall(w, tool, rel) ==
    /\ fpc[w] = "idle"
    /\ fcalls < MaxToolCalls
    /\ fcalls' = fcalls + 1
    /\ ftool' = [ftool EXCEPT ![w] = tool]
    /\ fpath' = [fpath EXCEPT ![w] = rel]
    /\ IF ResolvesInside(rel)
       THEN FLAcquireLoop(w, LockKey(tool, rel)) /\ UNCHANGED fexit
       ELSE /\ fexit' = Exit(w, "rejected")
            /\ UNCHANGED <<locks, waitQueues, fpc>>
    /\ FLFrame

\* A resumed worker that takes the lock without testing the loop condition again.
FLResumeUntested(w) ==
    /\ fpc[w] = "woken"
    /\ locks' = [locks EXCEPT ![LockKey(ftool[w], fpath[w])] =
                     [workerIndex |-> w, acquiredAt |-> now]]
    /\ fpc' = [fpc EXCEPT ![w] = "writing"]
    /\ UNCHANGED <<waitQueues, ftool, fpath, fcalls, fexit>>
    /\ FLFrame

\* A worker whose promise release() resolved runs on: the loop test again.
FLResume(w) ==
    /\ fpc[w] = "woken"
    /\ FLAcquireLoop(w, LockKey(ftool[w], fpath[w]))
    /\ UNCHANGED <<ftool, fpath, fcalls, fexit>>
    /\ FLFrame

\* release(filePath) wakes nobody: the lock is deleted, the queue is left alone.
FLReleaseWithoutWake(w, key) ==
    /\ locks' = [locks EXCEPT ![key] = NoLock]
    /\ fpc' = [fpc EXCEPT ![w] = "idle"]
    /\ UNCHANGED waitQueues

\* release(filePath), lines 29-40, called by worker w, whose tool then returns.
FLRelease(w, key) ==
    /\ locks' = [locks EXCEPT ![key] = NoLock]
    /\ IF Len(waitQueues[key]) > 0
       THEN /\ waitQueues' = [waitQueues EXCEPT ![key] = Tail(@)]
            /\ fpc' = [fpc EXCEPT ![w] = "idle", ![Head(waitQueues[key])] = "woken"]
       ELSE /\ fpc' = [fpc EXCEPT ![w] = "idle"]
            /\ UNCHANGED waitQueues

\* The exits of the tool's inner try block: write_file returns at line 26 or
\* throws from fs.mkdir / fs.writeFile; patch_file returns at lines 21 (search
\* text not found), 27 (multiple matches) and 38, or throws from fs.readFile /
\* fs.writeFile.
ToolExits(tool) ==
    IF tool = "write_file" THEN {"written", "io_error"}
    ELSE {"patched", "not_found", "multiple_matches", "io_error"}

\* A tool that leaves its try block without the finally clause when the file
\* system throws.
FLToolReturnLeaking(w, how) ==
    /\ fpc[w] = "writing"
    /\ how \in ToolExits(ftool[w])
    /\ fexit' = Exit(w, how)
    /\ IF how = "io_error"
       THEN /\ fpc' = [fpc EXCEPT ![w] = "idle"]
            /\ UNCHANGED <<locks, waitQueues>>
       ELSE FLRelease(w, LockKey(ftool[w], fpath[w]))
    /\ UNCHANGED <<ftool, fpath, fcalls>>
    /\ FLFrame

\* The tool's file-system work ends on one of its exits: finally, release.
FLToolReturn(w, how) ==
    /\ fpc[w] = "writing"
    /\ how \in ToolExits(ftool[w])
    /\ fexit' = Exit(w, how)
    /\ FLRelease(w, LockKey(ftool[w], fpath[w]))
    /\ UNCHANGED <<ftool, fpath, fcalls>>
    /\ FLFrame

FLInit ==
    /\ locks = [k \in LockKeys |-> NoLock]
    /\ waitQueues = [k \in LockKeys |-> <<>>]
    /\ fpc = [w \in Workers |-> "idle"]
    /\ ftool = [w \in Workers |-> "write_file"]
    /\ fpath = [w \in Workers |-> <<"a.ts">>]
    /\ fcalls = 0
    /\ fexit = Exit(NoWorker, "none")

FLNext ==
    \/ \E w \in Workers, tool \in Tools, rel \in PathArgs : FLToolCall(w, tool, rel)
    \/ \E w \in Workers : FLResume(w)
    \/ \E w \in Workers, how \in ExitKinds : FLToolReturn(w, how)

\* The calls of SpecLocks: one path inside the project under both tools, and
\* one path that resolveSafe rejects.
LockPaths == {<<"a.ts">>, <<"..", "x">>}

LocksNext ==
    \/ \E w \in Workers, tool \in Tools, rel \in LockPaths : FLToolCall(w, tool, rel)
    \/ \E w \in Workers : FLResume(w)
    \/ \E w \in Workers, how \in ExitKinds : FLToolReturn(w, how)

(***************************************************************************)
(* SpecCalls: the task manager of one single-subtask plan under the calls  *)
(* the orchestrator makes on it (dispatch, applyWorkerResult,              *)
(* applyReviewDecisions), in any order, with the calls kept in `calls`.    *)
(***************************************************************************)
CallFrame == UNCHANGED <<orchVars, rlVars, flVars, llmVars, workerVars, jsonVars, askVars, ckptVars, planVars, streamVars, serverVars>>

Call(id, kind) == [subtaskId |-> id, kind |-> kind]

\* The calls so far of the given kinds on the subtask with this id.
CallCount(id, kinds) ==
    Cardinality({i \in DOMAIN calls : calls[i].subtaskId = id /\ calls[i].kind \in kinds})

CallAddSubtasksFromPlan ==
    /\ subtasks = <<>>
    /\ subtasks' = AddSubtasksFromPlanTo(subtasks, PlanSingle)
    /\ UNCHANGED calls
    /\ CallFrame

\* Lines 584-588 of runOrchestrator: the ready subtasks are dispatched.
CallDispatch ==
    /\ Len(calls) < MaxCalls
    /\ Batch(subtasks) # <<>>
    /\ subtasks' = Dispatched(subtasks, Batch(subtasks))
    /\ calls' = calls \o [i \in DOMAIN Batch(subtasks) |->
                            Call(subtasks[Batch(subtasks)[i]].id, "dispatch")]
    /\ CallFrame

\* applyWorkerResult(result), the result of a worker run on an existing subtask.
CallApplyWorkerResult(result) ==
    /\ Len(calls) < MaxCalls
    /\ FindById(subtasks, result.subtaskId) # 0
    /\ subtasks' = ApplyWorkerResultTo(subtasks, result)
    /\ calls' = Append(calls, Call(result.subtaskId, result.status))
    /\ CallFrame

\* applyReviewDecisions([decision]) on an existing subtask.
CallApplyReviewDecision(decision) ==
    /\ Len(calls) < MaxCalls
    /\ FindById(subtasks, decision.subtaskId) # 0
    /\ subtasks' = ApplyReviewDecisionsTo(subtasks, <<decision>>)
    /\ calls' = Append(calls, Call(decision.subtaskId, decision.verdict))
    /\ CallFrame

CallResults(ss) ==
    {r \in WorkerResults(ss) : r.artifacts = <<>> /\ r.error = Undefined}

CallDecisions(ss) == {d \in Decisions(ss) : d.feedback = Undefined}

CallNext ==
    \/ CallAddSubtasksFromPlan
    \/ CallDispatch
    \/ \E result \in CallResults(subtasks) : CallApplyWorkerResult(result)
    \/ \E decision \in CallDecisions(subtasks) : CallApplyReviewDecision(decision)

(***************************************************************************)
(* llm/client.ts: chatCompletion and chatCompletionStream on a limiter      *)
(***************************************************************************)
LLMFrame == UNCHANGED <<tmVars, orchLocals, flVars, callVars, workerVars, jsonVars, askVars, ckptVars, planVars, streamVars, serverVars>>

Functions == {"chatCompletion", "chatCompletionStream"}

\* What create() or the stream may throw: the fields isRetryable reads.
Error(falsy, status, code) == [falsy |-> falsy, status |-> status, code |-> code]
NoCode == ""
StatusCodes == {400, 429, 499, 500, 599, 600}
ErrorCodes == {"ECONNRESET", "ETIMEDOUT", "ENOTFOUND", "EPIPE"}
Errors ==
    {Error(TRUE, None, NoCode), Error(FALSE, None, NoCode)}
    \cup {Error(FALSE, Some(status), NoCode) : status \in StatusCodes}
    \cup {Error(FALSE, None, code) : code \in ErrorCodes}

IsRetryableAlways(e) == TRUE

\* isRetryable(err)
IsRetryable(e) ==
    IF e.falsy THEN FALSE
    ELSE IF e.status # None
            /\ (e.status[1] = 429 \/ (e.status[1] >= 500 /\ e.status[1] < 600))
    THEN TRUE
    ELSE e.code \in {"ECONNRESET", "ETIMEDOUT", "ENOTFOUND"}

\* The limiter after the loop head's `await limiter.acquire()` of call c.
Acquired(st, c) == ConcurrencyGated(st, c)

\* The catch clause decides: TRUE to emit llm:retry, sleep and continue.
Retries(n, e) == n < MAX_RETRIES /\ IsRetryable(e)

FinallyOnExitSkipped(st, c) == st

\* The finally clause on the path that leaves the function.
FinallyOnExit(st, c) == Released(st, c)

\* The call starts: attempt 0 and its acquire().
LLMCall(c, fn) ==
    /\ lpc[c] = "idle"
    /\ rlpc[c] = "idle"
    /\ lfn' = [lfn EXCEPT ![c] = fn]
    /\ attempt' = [attempt EXCEPT ![c] = 0]
    /\ acquires' = [acquires EXCEPT ![c] = @ + 1]
    /\ lpc' = [lpc EXCEPT ![c] = "attempt"]
    /\ SetLimiter(Acquired(LimiterState, c))
    /\ UNCHANGED <<now, maxConcurrent, maxPerHour, err, releases, retries>>
    /\ LLMFrame

\* A queued acquire() of a transport call goes on after a release woke it.
LLMResume(c) ==
    /\ lpc[c] = "attempt"
    /\ RLResume(c)

\* The stream yields a chunk (lines 120-153) and the loop awaits the next one.
LLMChunk(c) ==
    /\ lpc[c] = "attempt"
    /\ rlpc[c] = "holding"
    /\ lfn[c] = "chatCompletionStream"
    /\ lpc' = [lpc EXCEPT ![c] = "streaming"]
    /\ UNCHANGED <<rlVars, events, lfn, attempt, err, acquires, releases, retries>>
    /\ LLMFrame

\* The request is being served: create() is awaited, or the stream is read.
InAttempt(c) ==
    \/ lpc[c] = "attempt" /\ rlpc[c] = "holding"
    \/ lpc[c] = "streaming"

\* The response (or the stream's end) arrives: return through finally.
LLMReturn(c) ==
    /\ InAttempt(c)
    /\ lpc' = [lpc EXCEPT ![c] = "returned"]
    /\ releases' = [releases EXCEPT ![c] = @ + 1]
    /\ SetLimiter(FinallyOnExit(LimiterState, c))
    /\ UNCHANGED <<now, maxConcurrent, maxPerHour, lfn, attempt, err, acquires, retries>>
    /\ LLMFrame

\* The request or the stream throws e: the catch clause, lines 71-80 and 177-186.
LLMCatch(c, e) ==
    /\ InAttempt(c)
    /\ err' = [err EXCEPT ![c] = Some(e)]
    /\ IF Retries(attempt[c], e)
       THEN /\ events' = events \cup {"llm:retry"}
            /\ retries' = [retries EXCEPT ![c] = @ + 1]
            /\ lpc' = [lpc EXCEPT ![c] = "backoff"]
            /\ UNCHANGED <<rlVars, releases>>
       ELSE /\ lpc' = [lpc EXCEPT ![c] = "threw"]
            /\ releases' = [releases EXCEPT ![c] = @ + 1]
            /\ SetLimiter(FinallyOnExit(LimiterState, c))
            /\ UNCHANGED <<now, maxConcurrent, maxPerHour, retries>>
    /\ UNCHANGED <<lfn, attempt, acquires>>
    /\ LLMFrame

\* The backoff timer fires: continue runs finally, attempt++, and the next acquire().
LLMBackoffEnds(c) ==
    /\ lpc[c] = "backoff"
    /\ err' = [err EXCEPT ![c] = None]
    /\ releases' = [releases EXCEPT ![c] = @ + 1]
    /\ attempt' = [attempt EXCEPT ![c] = @ + 1]
    /\ acquires' = [acquires EXCEPT ![c] = @ + 1]
    /\ lpc' = [lpc EXCEPT ![c] = "attempt"]
    /\ SetLimiter(Acquired(Released(LimiterState, c), c))
    /\ UNCHANGED <<now, maxConcurrent, maxPerHour, lfn, retries>>
    /\ LLMFrame

LLMInit ==
    /\ lpc = [c \in Callers |-> "idle"]
    /\ lfn = [c \in Callers |-> "chatCompletion"]
    /\ attempt = [c \in Callers |-> 0]
    /\ err = [c \in Callers |-> None]
    /\ acquires = [c \in Callers |-> 0]
    /\ releases = [c \in Callers |-> 0]
    /\ retries = [c \in Callers |-> 0]

LLMNext ==
    \/ \E c \in Callers, fn \in Functions : LLMCall(c, fn)
    \/ \E c \in Callers : LLMResume(c)
    \/ \E c \in Callers : LLMChunk(c)
    \/ \E c \in Callers : LLMReturn(c)
    \/ \E c \in Callers, e \in Errors : LLMCatch(c, e)
    \/ \E c \in Callers : LLMBackoffEnds(c)

(***************************************************************************)
(* chatCompletionStream (src/unnamed/part_000, lines 88-193): one call on  *)
(* a free limiter, with the chunks of the stream and what onToken is       *)
(* given.  A text is the sequence of its chunks.                           *)
(***************************************************************************)
StreamFrame == UNCHANGED <<tmVars, orchLocals, flVars, callVars, llmVars, workerVars, jsonVars, askVars, ckptVars, planVars, serverVars>>

StreamCaller == 1

\* chunk.choices[0]?.delta: absent, or with a content that may be empty.
NoDelta == [present |-> FALSE, content |-> ""]
Delta(content) == [present |-> TRUE, content |-> content]
Deltas == {NoDelta, Delta(""), Delta("a"), Delta("b")}

\* What create() or the stream throws.
StreamErrors == {Error(FALSE, None, "ECONNRESET"), Error(FALSE, Some(400), NoCode)}

\* Line 168: content || null.
MessageContent(content) == IF content = <<>> THEN None ELSE Some(content)

\* Line 116: let content = '' inside the try block of every attempt.
ContentAtCreate(content) == <<>>

\* Lines 97-114: the call starts, attempt 0: acquire(), then create() is awaited.
StreamCall ==
    /\ spc = "idle"
    /\ rlpc[StreamCaller] = "idle"
    /\ sattempt' = 0
    /\ SetLimiter(Acquired(LimiterState, StreamCaller))
    /\ spc' = "create"
    /\ UNCHANGED <<now, maxConcurrent, maxPerHour, scontent, stokens, sresponse>>
    /\ StreamFrame

\* Lines 114-120: create() resolves to the stream; the first chunk is awaited.
StreamCreated ==
    /\ spc = "create"
    /\ scontent' = ContentAtCreate(scontent)
    /\ spc' = "streaming"
    /\ UNCHANGED <<rlVars, events, sattempt, stokens, sresponse>>
    /\ StreamFrame

\* Lines 120-153: the stream yields a chunk; the next one is awaited.
StreamChunk(delta) ==
    /\ spc = "streaming"
    /\ Len(stokens) < MaxTokens
    /\ IF delta.present /\ delta.content # ""
       THEN /\ scontent' = Append(scontent, delta.content)
            /\ stokens' = Append(stokens, delta.content)
       ELSE UNCHANGED <<scontent, stokens>>
    /\ UNCHANGED <<rlVars, events, spc, sattempt, sresponse>>
    /\ StreamFrame

\* Lines 155-176 and 187-189: the stream ends; the response is returned through finally.
StreamEnds ==
    /\ spc = "streaming"
    /\ sresponse' = Some([role |-> "assistant", content |-> MessageContent(scontent)])
    /\ spc' = "returned"
    /\ SetLimiter(FinallyOnExit(LimiterState, StreamCaller))
    /\ UNCHANGED <<now, maxConcurrent, maxPerHour, sattempt, scontent, stokens>>
    /\ StreamFrame

\* Lines 177-189: create() or the stream throws e.
StreamCatch(e) ==
    /\ spc \in {"create", "streaming"}
    /\ IF Retries(sattempt, e)
       THEN /\ events' = events \cup {"llm:retry"}
            /\ spc' = "backoff"
            /\ UNCHANGED rlVars
       ELSE /\ spc' = "threw"
            /\ SetLimiter(FinallyOnExit(LimiterState, StreamCaller))
            /\ UNCHANGED <<now, maxConcurrent, maxPerHour>>
    /\ UNCHANGED <<sattempt, scontent, stokens, sresponse>>
    /\ StreamFrame

\* Lines 183-189 and 97-98: the backoff timer fires: continue runs finally,
\* attempt++, and the next acquire().
StreamBackoffEnds ==
    /\ spc = "backoff"
    /\ sattempt' = sattempt + 1
    /\ SetLimiter(Acquired(Released(LimiterState, StreamCaller), StreamCaller))
    /\ spc' = "create"
    /\ UNCHANGED <<now, maxConcurrent, maxPerHour, scontent, stokens, sresponse>>
    /\ StreamFrame

StreamInit ==
    /\ spc = "idle"
    /\ sattempt = 0
    /\ scontent = <<>>
    /\ stokens = <<>>
    /\ sresponse = None

StreamNext ==
    \/ StreamCall
    \/ StreamCreated
    \/ \E delta \in Deltas : StreamChunk(delta)
    \/ StreamEnds
    \/ \E e \in StreamErrors : StreamCatch(e)
    \/ StreamBackoffEnds

(***************************************************************************)
(* agents/worker.ts (src/unnamed/part_005): runWorker, one action per      *)
(* stretch of code between two awaits.  The replies of the LLM and the     *)
(* outcomes of executeTool are inputs.                                     *)
(***************************************************************************)
WorkerFrame == UNCHANGED <<tmVars, orchLocals, rlVars, flVars, callVars, llmVars, jsonVars, askVars, ckptVars, planVars, streamVars, serverVars>>

\* The tool_calls of the assistant message of loop step n: ids, in emitted order.
ToolCallsOf(n, count) == [i \in 1..count |-> <<n, i>>]

\* What chatCompletionStream resolves to: a response without a choice, or one
\* whose message has this many tool calls.
ToolCallCounts == {0, 1, 2}
LLMReplies ==
    {[choice |-> FALSE, toolCalls |-> 0]}
    \cup {[choice |-> TRUE, toolCalls |-> count] : count \in ToolCallCounts}

\* err.message of what chatCompletionStream rejects with.
LLMErrorMessages == {"LLM down"}

WorkerResult(status, error) ==
    [subtaskId |-> wid, status |-> status, error |-> error]

WorkerReturns(result) ==
    /\ wpc' = "returned"
    /\ wresult' = Some(result)

\* The head of the step loop with counter n: the next LLM call, or the return
\* after the loop.
LoopHeadNoBudget(n) ==
    /\ wstep' = n
    /\ wpc' = "llm"
    /\ wllmCalls' = wllmCalls + 1
    /\ UNCHANGED wresult

LoopHead(n) ==
    /\ wstep' = n
    /\ IF n < MAX_WORKER_TOOL_LOOPS
       THEN /\ wpc' = "llm"
            /\ wllmCalls' = wllmCalls + 1
            /\ UNCHANGED wresult
       ELSE /\ WorkerReturns(WorkerResult("failed", "max_iterations"))
            /\ UNCHANGED wllmCalls

\* executeTool is invoked with the last tool call of the message, whatever i.
InvokeLast(calls_, i) == winvoked' = Append(winvoked, calls_[Len(calls_)])

\* executeTool is invoked with the tool call at position i.
Invoke(calls_, i) == winvoked' = Append(winvoked, calls_[i])

\* Lines 94-114: runWorker is called for the subtask with this id.
WorkerStart(id) ==
    /\ wpc = "start"
    /\ wid' = id
    /\ LoopHead(0)
    /\ UNCHANGED <<wmessages, wtoolCalls, wnext, winvoked, events>>
    /\ WorkerFrame

\* Lines 123-131: chatCompletionStream rejects.
WorkerLLMThrows(message) ==
    /\ wpc = "llm"
    /\ WorkerReturns(WorkerResult("failed", message))
    /\ UNCHANGED <<wid, wstep, wmessages, wtoolCalls, wnext, wllmCalls, winvoked, events>>
    /\ WorkerFrame

\* Lines 133-166: chatCompletionStream resolves; up to the first executeTool.
WorkerLLMReplies(reply) ==
    /\ wpc = "llm"
    /\ IF ~reply.choice
       THEN /\ WorkerReturns(WorkerResult("failed", "empty_response"))
            /\ UNCHANGED <<wmessages, wtoolCalls, wnext, winvoked, events>>
       ELSE LET toolCalls == ToolCallsOf(wstep, reply.toolCalls)
            IN  /\ wmessages' = Append(wmessages,
                                       [role |-> "assistant", tool_calls |-> toolCalls])
                /\ IF Len(toolCalls) = 0
                   THEN /\ WorkerReturns(WorkerResult("completed", Undefined))
                        /\ UNCHANGED <<wtoolCalls, wnext, winvoked, events>>
                   ELSE /\ wtoolCalls' = toolCalls
                        /\ wnext' = 1
                        /\ Emit({"subtask:progress"})
                        /\ Invoke(toolCalls, 1)
                        /\ wpc' = "tool"
                        /\ UNCHANGED wresult
    /\ UNCHANGED <<wid, wstep, wllmCalls>>
    /\ WorkerFrame

\* Lines 179-184 and the loop heads after them: the tool message of the current
\* call is pushed; the next tool call is invoked, or the step loop goes on.
ToolMessagePushed(content) ==
    /\ wmessages' = Append(wmessages, [role |-> "tool",
                                       tool_call_id |-> wtoolCalls[wnext],
                                       content |-> content])
    /\ IF wnext < Len(wtoolCalls)
       THEN /\ wnext' = wnext + 1
            /\ Emit({"subtask:progress"})
            /\ Invoke(wtoolCalls, wnext + 1)
            /\ wpc' = "tool"
            /\ UNCHANGED <<wstep, wresult, wllmCalls, wtoolCalls>>
       ELSE /\ LoopHead(wstep + 1)
            /\ UNCHANGED <<wnext, wtoolCalls, winvoked, events>>

\* Lines 168-170: the first executeTool of the current call returns.
WorkerToolReturns ==
    /\ wpc = "tool"
    /\ ToolMessagePushed("result")
    /\ UNCHANGED wid
    /\ WorkerFrame

\* Lines 171-174: the first executeTool throws; it is invoked again.
WorkerToolThrows ==
    /\ wpc = "tool"
    /\ Invoke(wtoolCalls, wnext)
    /\ wpc' = "retry"
    /\ UNCHANGED <<wid, wstep, wmessages, wtoolCalls, wnext, wresult, wllmCalls, events>>
    /\ WorkerFrame

\* A second throw that ends runWorker with a failed result.
WorkerRetryFails(threw) ==
    /\ wpc = "retry"
    /\ IF threw
       THEN /\ WorkerReturns(WorkerResult("failed", "Tool execution failed after retry"))
            /\ UNCHANGED <<wstep, wmessages, wtoolCalls, wnext, wllmCalls, winvoked, events>>
       ELSE ToolMessagePushed("result")
    /\ UNCHANGED wid
    /\ WorkerFrame

\* Lines 174-177: the second executeTool returns, or throws.
WorkerRetrySettles(threw) ==
    /\ wpc = "retry"
    /\ ToolMessagePushed(IF threw THEN "Tool execution failed after retry" ELSE "result")
    /\ UNCHANGED wid
    /\ WorkerFrame

WorkerInit ==
    /\ wpc = "start"
    /\ wid = 0
    /\ wstep = 0
    /\ wmessages = <<>>
    /\ wtoolCalls = <<>>
    /\ wnext = 0
    /\ wresult = None
    /\ wllmCalls = 0
    /\ winvoked = <<>>

\* The ids of the subtasks runWorker is called for.
WorkerSubtaskIds == {1, 2}

WorkerNext ==
    \/ \E id \in WorkerSubtaskIds : WorkerStart(id)
    \/ \E message \in LLMErrorMessages : WorkerLLMThrows(message)
    \/ \E reply \in LLMReplies : WorkerLLMReplies(reply)
    \/ WorkerToolReturns
    \/ WorkerToolThrows
    \/ \E threw \in BOOLEAN : WorkerRetrySettles(threw)

(***************************************************************************)
(* llm/json-parser.ts: parseJSON.  A text is the sequence of its           *)
(* characters.  JSON.parse is modelled for texts made of objects, arrays,  *)
(* strings with the escapes \" and \\, and numbers written with 0 and 1;   *)
(* a parsed object is the sequence of its <<key, value>> members.          *)
(***************************************************************************)
JSONFrame == UNCHANGED <<tmVars, orchVars, rlVars, flVars, callVars, llmVars, workerVars, askVars, ckptVars, planVars, streamVars, serverVars>>

Quote == "\""
Backslash == "\\"
Newline == "\n"
Whitespace == {" ", Newline}
Digits01 == {"0", "1"}

\* String.prototype.trim
Trim(t) ==
    LET Solid == {i \in DOMAIN t : t[i] \notin Whitespace}
    IN  IF Solid = {} THEN <<>>
        ELSE SubSeq(t, Min(Solid), CHOOSE i \in Solid : \A j \in Solid : j <= i)

SkipWhitespace(t, i) ==
    LET Solid == {j \in i..Len(t) : t[j] \notin Whitespace}
    IN  IF Solid = {} THEN Len(t) + 1 ELSE Min(Solid)

Failed == [ok |-> FALSE]
Parsed(value, next) == [ok |-> TRUE, value |-> value, next |-> next]

JsonNumber(digits) == [type |-> "number", digits |-> digits]
JsonString(chars) == [type |-> "string", chars |-> chars]
JsonArray(items) == [type |-> "array", items |-> items]
JsonObject(members) == [type |-> "object", members |-> members]

RECURSIVE ParseStringFrom(_, _, _)
ParseStringFrom(t, i, chars) ==
    IF i > Len(t) \/ t[i] = Newline THEN Failed
    ELSE IF t[i] = Quote THEN Parsed(JsonString(chars), i + 1)
    ELSE IF t[i] = Backslash
         THEN IF i + 1 <= Len(t) /\ t[i + 1] \in {Quote, Backslash}
              THEN ParseStringFrom(t, i + 2, Append(chars, t[i + 1]))
              ELSE Failed
    ELSE ParseStringFrom(t, i + 1, Append(chars, t[i]))

ParseNumber(t, i) ==
    LET NonDigits == {j \in i..Len(t) : t[j] \notin Digits01}
        end == IF NonDigits = {} THEN Len(t) + 1 ELSE Min(NonDigits)
    IN  IF t[i] = "0" /\ end > i + 1 THEN Parsed(JsonNumber(<<"0">>), i + 1)
        ELSE Parsed(JsonNumber(SubSeq(t, i, end - 1)), end)

RECURSIVE ParseValue(_, _), ParseItems(_, _, _), ParseMembers(_, _, _)
ParseValue(t, start) ==
    LET i == SkipWhitespace(t, start)
    IN  IF i > Len(t) THEN Failed
        ELSE IF t[i] = Quote THEN ParseStringFrom(t, i + 1, <<>>)
        ELSE IF t[i] \in Digits01 THEN ParseNumber(t, i)
        ELSE IF t[i] = "["
             THEN LET j == SkipWhitespace(t, i + 1)
                  IN  IF j <= Len(t) /\ t[j] = "]" THEN Parsed(JsonArray(<<>>), j + 1)
                      ELSE ParseItems(t, j, <<>>)
        ELSE IF t[i] = "{"
             THEN LET j == SkipWhitespace(t, i + 1)
                  IN  IF j <= Len(t) /\ t[j] = "}" THEN Parsed(JsonObject(<<>>), j + 1)
                      ELSE ParseMembers(t, j, <<>>)
        ELSE Failed

ParseItems(t, i, items) ==
    LET item == ParseValue(t, i)
    IN  IF ~item.ok THEN Failed
        ELSE LET j == SkipWhitespace(t, item.next)
             IN  IF j > Len(t) THEN Failed
                 ELSE IF t[j] = "]" THEN Parsed(JsonArray(Append(items, item.value)), j + 1)
                 ELSE IF t[j] = "," THEN ParseItems(t, j + 1, Append(items, item.value))
                 ELSE Failed

ParseMembers(t, start, members) ==
    LET i == SkipWhitespace(t, start)
    IN  IF i > Len(t) \/ t[i] # Quote THEN Failed
        ELSE LET key == ParseStringFrom(t, i + 1, <<>>)
             IN  IF ~key.ok THEN Failed
                 ELSE LET c == SkipWhitespace(t, key.next)
                      IN  IF c > Len(t) \/ t[c] # ":" THEN Failed
                          ELSE LET member == ParseValue(t, c + 1)
                               IN  IF ~member.ok THEN Failed
                                   ELSE LET j == SkipWhitespace(t, member.next)
                                            all == Append(members, <<key.value.chars, member.value>>)
                                        IN  IF j > Len(t) THEN Failed
                                            ELSE IF t[j] = "}" THEN Parsed(JsonObject(all), j + 1)
                                            ELSE IF t[j] = "," THEN ParseMembers(t, j + 1, all)
                                            ELSE Failed

JSONParse(t) ==
    LET r == ParseValue(t, 1)
    IN  IF r.ok /\ SkipWhitespace(t, r.next) > Len(t) THEN Some(r.value) ELSE None

\* tryParse(text): JSON.parse's value, None for null when it throws.
TryParse(t) == JSONParse(t)

\* text.indexOf(ch), counted from 1; 0 for -1.
IndexOf(t, ch) ==
    LET At == {i \in DOMAIN t : t[i] = ch}
    IN  IF At = {} THEN 0 ELSE Min(At)

\* The grave accent, which a TLA+ string cannot hold.
Backtick == "GRAVE"
Fence == <<Backtick, Backtick, Backtick>>
FencesFrom(t, i) == {k \in i..(Len(t) - 2) : SubSeq(t, k, k + 2) = Fence}

\* Line 14, text.match(fence, optional json, body, fence), and the trim of
\* line 16: the text between the first fence and the next one, None without
\* two fences.
FenceMatch(t) ==
    LET opening == FencesFrom(t, 1)
    IN  IF opening = {} THEN None
        ELSE LET i == Min(opening)
                 body == IF SubSeq(t, i + 3, i + 6) = <<"j", "s", "o", "n">>
                            /\ FencesFrom(t, i + 7) # {}
                         THEN i + 7 ELSE i + 3
                 closing == FencesFrom(t, body)
             IN  IF closing = {} THEN None
                 ELSE Some(Trim(SubSeq(t, body, Min(closing) - 1)))

EndOf(startChar) == IF startChar = "{" THEN "}" ELSE "]"

\* Lines 59-86: the scan from position i for the block opened at startIdx.
RECURSIVE ScanBlock(_, _, _, _, _, _, _)
ScanBlock(t, startChar, startIdx, i, depth, inString, escape) ==
    IF i > Len(t) THEN None
    ELSE IF escape THEN ScanBlock(t, startChar, startIdx, i + 1, depth, inString, FALSE)
    ELSE IF t[i] = Backslash /\ inString
         THEN ScanBlock(t, startChar, startIdx, i + 1, depth, inString, TRUE)
    ELSE IF t[i] = Quote
         THEN ScanBlock(t, startChar, startIdx, i + 1, depth, ~inString, FALSE)
    ELSE IF inString THEN ScanBlock(t, startChar, startIdx, i + 1, depth, inString, FALSE)
    ELSE LET opened == IF t[i] = startChar THEN depth + 1 ELSE depth
             closed == IF t[i] = EndOf(startChar) THEN opened - 1 ELSE opened
         IN  IF t[i] = EndOf(startChar) /\ closed = 0
             THEN Some(SubSeq(t, startIdx, i))
             ELSE ScanBlock(t, startChar, startIdx, i + 1, closed, inString, FALSE)

\* The block the scan for one start character yields, None when the character
\* is absent or its block does not close.
BlockFor(t, startChar) ==
    LET startIdx == IndexOf(t, startChar)
    IN  IF startIdx = 0 THEN None
        ELSE ScanBlock(t, startChar, startIdx, startIdx, 0, FALSE, FALSE)

\* extractJsonBlock(text): the brace is tried first, then the bracket.
ExtractJsonBlock(t) ==
    IF BlockFor(t, "{") # None THEN BlockFor(t, "{") ELSE BlockFor(t, "[")

\* Line 95, the removal of a comma before a closing brace or bracket, from
\* position i on.
RECURSIVE WithoutTrailingCommas(_, _)
WithoutTrailingCommas(t, i) ==
    IF i > Len(t) THEN <<>>
    ELSE LET j == SkipWhitespace(t, i + 1)
         IN  IF t[i] = "," /\ j <= Len(t) /\ t[j] \in {"}", "]"}
             THEN WithoutTrailingCommas(t, j)
             ELSE <<t[i]>> \o WithoutTrailingCommas(t, i + 1)

\* fixCommonJsonIssues(text)
FixCommonJsonIssues(t) ==
    LET fixed == WithoutTrailingCommas(t, 1)
    IN  IF IndexOf(fixed, Quote) = 0 /\ IndexOf(fixed, "'") # 0
        THEN [i \in DOMAIN fixed |-> IF fixed[i] = "'" THEN Quote ELSE fixed[i]]
        ELSE fixed

\* tryParse of an optional text.
TryParseIf(found) == IF found = None THEN None ELSE TryParse(found[1])

\* parseJSON(text): None for null.
ParseJSON(t) ==
    IF Trim(t) = <<>> THEN None
    ELSE IF TryParse(Trim(t)) # None THEN TryParse(Trim(t))
    ELSE IF TryParseIf(FenceMatch(t)) # None THEN TryParseIf(FenceMatch(t))
    ELSE IF TryParseIf(ExtractJsonBlock(t)) # None THEN TryParseIf(ExtractJsonBlock(t))
    ELSE TryParseIf(ExtractJsonBlock(FixCommonJsonIssues(t)))

Prelude == <<"p", "r", "e", "l", "u", "d", "e", Newline>>
Postlude == <<Newline, "p", "o", "s", "t", "l", "u", "d", "e">>

\* JSON texts: numbers and strings, and the arrays and objects built of them.
StringText(chars) == <<Quote>> \o chars \o <<Quote>>
AtomTexts ==
    { <<"1">>, StringText(<<"a">>), StringText(<<"{">>), StringText(<<"{", "}">>),
      StringText(<<Backslash, Quote>>), StringText(Fence \o <<"1">> \o Fence) }
ArrayText(items) ==
    IF Len(items) = 0 THEN <<"[", "]">>
    ELSE IF Len(items) = 1 THEN <<"[">> \o items[1] \o <<"]">>
    ELSE <<"[">> \o items[1] \o <<",">> \o items[2] \o <<"]">>
ObjectText(value) == <<"{">> \o StringText(<<"a">>) \o <<":">> \o value \o <<"}">>
ItemCounts == {0, 1, 2}
BlocksOf(texts) ==
    {ArrayText(items) : items \in UNION {[1..n -> texts] : n \in ItemCounts}}
    \cup {<<"{", "}">>}
    \cup {ObjectText(value) : value \in texts}
\* Balanced objects and arrays, nested once.
JsonBlocks ==
    BlocksOf(AtomTexts)
    \cup BlocksOf({<<"[", "]">>, <<"{", "}">>} \cup {ObjectText(a) : a \in AtomTexts})

\* parseJSON("prelude\n" + s + "\npostlude")
JSONSalvage(s) ==
    /\ jsonText = None
    /\ jsonText' = Some(s)
    /\ jsonResult' = ParseJSON(Prelude \o s \o Postlude)
    /\ JSONFrame

\* The next text.
JSONReset ==
    /\ jsonText # None
    /\ jsonText' = None
    /\ jsonResult' = None
    /\ JSONFrame

JSONInit ==
    /\ jsonText = None
    /\ jsonResult = None

JSONNext ==
    \/ \E s \in JsonBlocks : JSONSalvage(s)
    \/ JSONReset

(***************************************************************************)
(* agents/orchestrator.ts: askOrchestrator, with llm/context-manager's     *)
(* manageContext.  A message is [role, content]; a content is a sequence   *)
(* of characters, a fixed prompt being kept whole as one element.          *)
(***************************************************************************)
AskFrame == UNCHANGED <<tmVars, orchVars, rlVars, flVars, callVars, llmVars, workerVars, jsonVars, ckptVars, planVars, streamVars, serverVars>>

Message(role, content) == [role |-> role, content |-> content]
ReminderText == <<"Your response was not valid JSON. Please respond with ONLY valid JSON, no other text.">>
Reminder == Message("user", ReminderText)
DefaultMaxJsonRetries == 2

\* SUMMARIZE_THRESHOLD, scaled to the short texts of the model.
SummarizeThreshold == 8
RecentMessages == 6

\* estimateChars(messages)
RECURSIVE EstimateChars(_)
EstimateChars(messages) ==
    IF messages = <<>> THEN 0
    ELSE Len(Head(messages).content) + EstimateChars(Tail(messages))

RecentCount(messages) == Min({RecentMessages, Len(messages) - 1})
Recent(messages) == SubSeq(messages, Len(messages) - RecentCount(messages) + 1, Len(messages))
Middle(messages) == SubSeq(messages, 2, Len(messages) - RecentCount(messages))

\* manageContext returns its argument: within budget, or nothing to summarize.
WithinBudget(messages) ==
    \/ EstimateChars(messages) < SummarizeThreshold
    \/ Middle(messages) = <<>>

\* middleMessages.map(...).join('\n')
RECURSIVE MiddleText(_)
MiddleText(middle) ==
    IF middle = <<>> THEN <<>>
    ELSE <<"[", Head(middle).role, "]: ">> \o Head(middle).content
         \o (IF Len(middle) = 1 THEN <<>> ELSE <<Newline>> \o MiddleText(Tail(middle)))

SummaryRequest(messages) ==
    << Message("system", <<"Summarize the following conversation history concisely.">>),
       Message("user", MiddleText(Middle(messages))) >>

\* What the summarizing chatCompletion settles with: a summary, a reply without
\* content, or a rejection.
SummaryOutcomes ==
    { [state |-> "fulfilled", content |-> Some(<<"s", "u", "m">>)],
      [state |-> "fulfilled", content |-> None],
      [state |-> "rejected", content |-> None] }

\* manageContext's return value once the summarizing call has settled.
Summarized(messages, o) ==
    IF o.state = "rejected" THEN <<messages[1]>> \o Recent(messages)
    ELSE LET summary == IF o.content = None THEN <<"Previous context was summarized.">>
                        ELSE o.content[1]
         IN  <<messages[1], Message("user", <<"[CONTEXT SUMMARY]", Newline, Newline>> \o summary)>>
             \o Recent(messages)

\* JavaScript truthiness of what parseJSON returned: null, 0 and "" are falsy.
Truthy(result) ==
    /\ result # None
    /\ result[1] # JsonNumber(<<"0">>)
    /\ result[1] # JsonString(<<>>)

\* Line 421: content.trim() === ''
Blank(content) == Trim(content) = <<>>
\* Line 426: !parseJSON(content)
Invalid(content) == ~Truthy(ParseJSON(content))

\* Lines 421-423: continue, the conversation as it was.
AfterBlankReply(messages, content) == messages

\* A retry that pushes the reply only.
AfterInvalidReplyUnreminded(messages, content) ==
    Append(messages, Message("assistant", content))
\* Lines 427-431: the reply and the reminder are pushed.
AfterInvalidReply(messages, content) ==
    Append(Append(messages, Message("assistant", content)), Reminder)

\* A return that leaves the reply out of the conversation.
AfterFinalReplyUnrecorded(messages, content) == messages
\* Line 435: the reply is pushed before it is returned.
AfterFinalReply(messages, content) == Append(messages, Message("assistant", content))

\* The conversations askOrchestrator is entered with: the system prompt alone,
\* and the system prompt followed by eight earlier messages.
SystemPrompt == Message("system", <<"You are the orchestrator.">>)
Earlier(role) == Message(role, <<"h", "h">>)
Histories ==
    { <<SystemPrompt>>,
      <<SystemPrompt, Earlier("user"), Earlier("assistant"), Earlier("user"), Earlier("assistant"),
        Earlier("user"), Earlier("assistant"), Earlier("user"), Earlier("assistant")>> }
UserMessages == {<<"Plan the project.">>}

\* The contents a reply can carry: none, blanks, prose, an object, an object in
\* prose, an object with a trailing comma, the number 0 and the number 1.
ReplyContents ==
    { <<>>, <<" ", Newline>>, <<"n", "o">>, <<"{", "}">>,
      <<"o", "k", " ", "{", "}">>, <<"[", "1", ",", "]">>, <<"0">>, <<"1">> }

LLMCallOf(purpose, messages) == [purpose |-> purpose, messages |-> messages]

\* Lines 408-414: the user message is pushed and manageContext is awaited; within
\* budget it returns the messages and the first chatCompletion is called.
AskOrchestrator(history, userMessage) ==
    /\ askPc = "idle"
    /\ LET messages == Append(history, Message("user", userMessage))
       IN  /\ orchestratorMessages' = messages
           /\ IF WithinBudget(messages)
              THEN /\ askPc' = "calling"
                   /\ askCalls' = Append(askCalls, LLMCallOf("reply", messages))
              ELSE /\ askPc' = "summarizing"
                   /\ askCalls' = Append(askCalls, LLMCallOf("summary", SummaryRequest(messages)))
    /\ askAttempt' = 0
    /\ UNCHANGED <<askReplies, askReturned>>
    /\ AskFrame

\* The summarizing call settles; ctx.orchestratorMessages becomes what
\* manageContext returns and the first chatCompletion of the loop is called.
AskSummarySettles(o) ==
    /\ askPc = "summarizing"
    /\ orchestratorMessages' = Summarized(orchestratorMessages, o)
    /\ askPc' = "calling"
    /\ askCalls' = Append(askCalls, LLMCallOf("reply", orchestratorMessages'))
    /\ UNCHANGED <<askAttempt, askReplies, askReturned>>
    /\ AskFrame

\* Lines 419-436: the body of the loop once chatCompletion has answered.
AskLLMReplies(content) ==
    /\ askPc = "calling"
    /\ askReplies' = Append(askReplies, content)
    /\ IF askAttempt < DefaultMaxJsonRetries /\ (Blank(content) \/ Invalid(content))
       THEN /\ orchestratorMessages' =
                   IF Blank(content) THEN AfterBlankReply(orchestratorMessages, content)
                   ELSE AfterInvalidReply(orchestratorMessages, content)
            /\ askAttempt' = askAttempt + 1
            /\ askCalls' = Append(askCalls, LLMCallOf("reply", orchestratorMessages'))
            /\ UNCHANGED <<askPc, askReturned>>
       ELSE /\ orchestratorMessages' = AfterFinalReply(orchestratorMessages, content)
            /\ askPc' = "returned"
            /\ askReturned' = Some(content)
            /\ UNCHANGED <<askAttempt, askCalls>>
    /\ AskFrame

\* Line 414: chatCompletion rejects and askOrchestrator rejects with it.
AskLLMThrows ==
    /\ askPc = "calling"
    /\ askPc' = "threw"
    /\ UNCHANGED <<askAttempt, orchestratorMessages, askCalls, askReplies, askReturned>>
    /\ AskFrame

AskInit ==
    /\ askPc = "idle"
    /\ askAttempt = 0
    /\ orchestratorMessages = <<>>
    /\ askCalls = <<>>
    /\ askReplies = <<>>
    /\ askReturned = None

AskNext ==
    \/ \E history \in Histories, userMessage \in UserMessages : AskOrchestrator(history, userMessage)
    \/ \E o \in SummaryOutcomes : AskSummarySettles(o)
    \/ \E content \in ReplyContents : AskLLMReplies(content)
    \/ AskLLMThrows

(***************************************************************************)
(* SpecStore: the operations on the subtask collection in any order, each  *)
(* with the saveCheckpoint the orchestrator runs after it, and             *)
(* loadCheckpoint reading the file that was written.                       *)
(***************************************************************************)
StoreFrame == UNCHANGED <<pc, iteration, assignments, settled, verification, fixPlanLen, events, outcome, batches, onlyAccepts, failures, rlVars, flVars, callVars, llmVars, workerVars, jsonVars, askVars, planVars, streamVars, serverVars>>

MaxStoreOps == 4

\* A plan whose first entry came without a description.
PlanUndescribed ==
    << [title |-> "A", description |-> Undefined, dependencies |-> <<>>],
       Entry("B", <<"A">>) >>
StorePlans == {PlanUndescribed, PlanSingle}

StoreResults(ss) ==
    {r \in WorkerResults(ss) : r.subtaskId # UnknownId /\ r.error = Undefined}
StoreDecisions(ss) ==
    {d \in Decisions(ss) : d.subtaskId # UnknownId /\ d.feedback = Undefined}

Performed(op) ==
    /\ opCount < MaxStoreOps
    /\ opCount' = opCount + 1
    /\ lastOp' = op

\* saveCheckpoint(ctx), ctx.subtasks being ss.
Saved(ss) ==
    /\ SaveCheckpoint(ss)
    /\ savedSubtasks' = ss

\* addSubtasksFromPlan / addMoreSubtasks and the saveCheckpoint that follows it
\* in the same stretch (orchestrator.ts 500-506, 530-532, 558-560).
StoreAddSubtasksFromPlan(plan) ==
    /\ Len(subtasks) + Len(plan) <= MaxSubtasks
    /\ subtasks' = AddSubtasksFromPlanTo(subtasks, plan)
    /\ Saved(subtasks')
    /\ Performed("addSubtasksFromPlan")
    /\ StoreFrame

\* orchestrator.ts 584-589: the ready batch is marked in_progress; nothing is
\* saved before the workers are awaited.
StoreDispatch ==
    /\ Len(GetReadySubtasks(subtasks)) > 0
    /\ subtasks' = Dispatched(subtasks, Batch(subtasks))
    /\ Performed("dispatch")
    /\ UNCHANGED <<checkpoint, savedSubtasks>>
    /\ StoreFrame

\* applyWorkerResult and the saveCheckpoint that follows it (625-628).
StoreApplyWorkerResult(result) ==
    /\ subtasks' = ApplyWorkerResultTo(subtasks, result)
    /\ WithinBounds(subtasks')
    /\ Saved(subtasks')
    /\ Performed("applyWorkerResult")
    /\ StoreFrame

\* applyReviewDecisions and the saveCheckpoint that follows it (647-652).
StoreApplyReviewDecisions(decisions) ==
    /\ subtasks' = ApplyReviewDecisionsTo(subtasks, decisions)
    /\ WithinBounds(subtasks')
    /\ Saved(subtasks')
    /\ Performed("applyReviewDecisions")
    /\ StoreFrame

\* saveCheckpoint(ctx) on its own, whatever the context holds.
StoreSaveCheckpoint ==
    /\ Saved(subtasks)
    /\ Performed("saveCheckpoint")
    /\ UNCHANGED subtasks
    /\ StoreFrame

\* loadCheckpoint(dir) of the file saveCheckpoint wrote; the context it returns
\* takes the place of the one in memory.
StoreLoadCheckpoint ==
    /\ checkpoint.exists
    /\ subtasks' = LoadedSubtasks(checkpoint.subtasks)
    /\ Performed("loadCheckpoint")
    /\ UNCHANGED <<checkpoint, savedSubtasks>>
    /\ StoreFrame

CkptInit ==
    /\ lastOp = "none"
    /\ opCount = 0
    /\ savedSubtasks = <<>>

StoreNext ==
    \/ \E plan \in StorePlans : StoreAddSubtasksFromPlan(plan)
    \/ StoreDispatch
    \/ \E result \in StoreResults(subtasks) : StoreApplyWorkerResult(result)
    \/ \E decision \in StoreDecisions(subtasks) : StoreApplyReviewDecisions(<<decision>>)
    \/ StoreSaveCheckpoint
    \/ StoreLoadCheckpoint

(***************************************************************************)
(* SpecEffects: the calls runOrchestrator and continueProject make on the  *)
(* task manager, in any order, each kept in lastOp with the ids it names.  *)
(* A plan may be added to a context that holds completed subtasks          *)
(* (continueProject, fix plans, needs_more), worker results come for       *)
(* dispatched subtasks or name an id no subtask has, review decisions      *)
(* name any id.                                                            *)
(***************************************************************************)
EffectFrame == UNCHANGED <<orchVars, rlVars, flVars, callVars, llmVars, workerVars, jsonVars, askVars, planVars, savedSubtasks, streamVars, serverVars>>

Op(kind, ids) == [kind |-> kind, ids |-> ids]

EffectPlans == {PlanByIndex, PlanSingle}
EffectResults(ss) ==
    {r \in WorkerResults(ss) :
        /\ r.artifacts = <<>> /\ r.error = Undefined
        /\ \/ r.subtaskId = UnknownId
           \/ ss[FindById(ss, r.subtaskId)].status = "in_progress"}
EffectDecisions(ss) == {d \in Decisions(ss) : d.feedback = Undefined}
\* review.decisions: one decision, or an accept followed by a decision on a
\* subtask with a greater id.
EffectDecisionLists(ss) ==
    {<<d>> : d \in EffectDecisions(ss)}
    \cup {pair \in EffectDecisions(ss) \X EffectDecisions(ss) :
              pair[1].verdict = "accept" /\ pair[1].subtaskId < pair[2].subtaskId}

\* taskManager.addSubtasksFromPlan / addMoreSubtasks (orchestrator.ts 238, 265, 292, 500, 530, 558).
EffectAddSubtasksFromPlan(plan) ==
    /\ Len(subtasks) + Len(plan) <= MaxSubtasks
    /\ subtasks' = AddSubtasksFromPlanTo(subtasks, plan)
    /\ Performed(Op("addSubtasksFromPlan", {}))
    /\ EffectFrame

\* orchestrator.ts 316-321 and 583-589: the ready batch is marked in_progress.
EffectDispatch ==
    /\ Batch(subtasks) # <<>>
    /\ subtasks' = Dispatched(subtasks, Batch(subtasks))
    /\ Performed(Op("dispatch", {subtasks[k].id : k \in Range(Batch(subtasks))}))
    /\ EffectFrame

\* taskManager.applyWorkerResult(result) (orchestrator.ts 355, 625).
EffectApplyWorkerResult(result) ==
    /\ subtasks' = ApplyWorkerResultTo(subtasks, result)
    /\ WithinBounds(subtasks')
    /\ Performed(Op("applyWorkerResult", {result.subtaskId}))
    /\ EffectFrame

\* taskManager.applyReviewDecisions(review.decisions) (orchestrator.ts 376, 647).
EffectApplyReviewDecisions(decisions) ==
    /\ subtasks' = ApplyReviewDecisionsTo(subtasks, decisions)
    /\ WithinBounds(subtasks')
    /\ Performed(Op("applyReviewDecisions", {decisions[n].subtaskId : n \in DOMAIN decisions}))
    /\ EffectFrame

EffectNext ==
    \/ \E plan \in EffectPlans : EffectAddSubtasksFromPlan(plan)
    \/ EffectDispatch
    \/ \E result \in EffectResults(subtasks) : EffectApplyWorkerResult(result)
    \/ \E decisions \in EffectDecisionLists(subtasks) : EffectApplyReviewDecisions(decisions)

(***************************************************************************)
(* SpecServer: src/src/web/server.ts, the handlers of the client messages  *)
(* that read or write serverMode.  A handler invocation holds one of the   *)
(* MaxHandlers slots from its first await to its end; a handler that ends  *)
(* without awaiting holds none.  The API key is configured.  runs counts   *)
(* the promises of runOrchestrator and continueProject that have not       *)
(* settled.                                                                *)
(***************************************************************************)
ServerFrame == UNCHANGED <<tmVars, orchVars, rlVars, flVars, callVars, llmVars, workerVars, jsonVars, askVars, ckptVars, planVars, streamVars>>

Handlers == 1..MaxHandlers

ServerModes == {"idle", "running", "completed", "failed", "planning"}

\* msg.dir / pState.projectDir: absent, not an existing directory, a directory.
Dirs == {"none", "missing", "exists"}

\* plannerState is given another value: the handlers awaiting
\* processPlannerMessage keep the object they passed, no longer the module's.
Detached(hp) ==
    [h \in Handlers |-> IF hp[h] = "planner" THEN "plannerStale" ELSE hp[h]]

\* Lines 324-358: startProject up to its first await, in slot h of hp.
StartProject(h, dir, hp) ==
    IF serverMode = "running" \/ dir = "missing"
    THEN /\ hpc' = hp
         /\ UNCHANGED <<serverMode, projectContext>>
    ELSE IF dir = "none"
    THEN /\ hpc' = [hp EXCEPT ![h] = "createProjectDir"]
         /\ UNCHANGED <<serverMode, projectContext>>
    ELSE /\ projectContext' = TRUE
         /\ serverMode' = "running"
         /\ hpc' = [hp EXCEPT ![h] = "import"]

\* Lines 804-808: create:project calls startProject.
SrvCreateProject(h, dir) ==
    /\ hpc[h] = "idle"
    /\ StartProject(h, dir, hpc)
    /\ UNCHANGED <<plannerState, runs>>
    /\ ServerFrame

\* Lines 345-365: createProjectDir resolved; the context and the mode are
\* set, then the orchestrator module is imported.
SrvDirCreated(h) ==
    /\ hpc[h] = "createProjectDir"
    /\ projectContext' = TRUE
    /\ serverMode' = "running"
    /\ hpc' = [hpc EXCEPT ![h] = "import"]
    /\ UNCHANGED <<plannerState, runs>>
    /\ ServerFrame

\* Lines 368-369, 415-416, 501-502: the import resolved; runOrchestrator or
\* continueProject is called and the handler ends without awaiting it.
SrvRunStarts(h) ==
    /\ hpc[h] = "import"
    /\ runs < MaxRuns
    /\ runs' = runs + 1
    /\ hpc' = [hpc EXCEPT ![h] = "idle"]
    /\ UNCHANGED <<serverMode, projectContext, plannerState>>
    /\ ServerFrame

\* Lines 370-384, 417-431, 503-516: a run's promise settles; then sets
\* 'completed', catch sets 'failed'.
SrvRunSettles(fulfilled) ==
    /\ runs > 0
    /\ runs' = runs - 1
    /\ serverMode' = IF fulfilled THEN "completed" ELSE "failed"
    /\ UNCHANGED <<projectContext, plannerState, hpc>>
    /\ ServerFrame

\* Lines 387-413: resume:project, resumeProject up to its first await.
SrvResumeProject(h, found) ==
    /\ hpc[h] = "idle"
    /\ IF serverMode = "running" \/ ~found
       THEN UNCHANGED <<serverMode, projectContext, hpc>>
       ELSE /\ projectContext' = TRUE
            /\ serverMode' = "running"
            /\ hpc' = [hpc EXCEPT ![h] = "import"]
    /\ UNCHANGED <<plannerState, runs>>
    /\ ServerFrame

\* Lines 435-450: view:project, viewProject.
SrvViewProject(found) ==
    /\ IF found
       THEN /\ projectContext' = TRUE
            /\ serverMode' = "completed"
       ELSE UNCHANGED <<serverMode, projectContext>>
    /\ UNCHANGED <<plannerState, hpc, runs>>
    /\ ServerFrame

\* Lines 480-500: handleContinue up to its first await, in slot h.
HandleContinue(h) ==
    IF ~projectContext \/ serverMode = "running"
    THEN /\ hpc' = [hpc EXCEPT ![h] = "idle"]
         /\ UNCHANGED serverMode
    ELSE /\ serverMode' = "running"
         /\ hpc' = [hpc EXCEPT ![h] = "import"]

\* Lines 849-853: continue:project calls handleContinue.
SrvContinueProject(h) ==
    /\ hpc[h] = "idle"
    /\ HandleContinue(h)
    /\ UNCHANGED <<projectContext, plannerState, runs>>
    /\ ServerFrame

\* Lines 454-465: chat:send, handleChat up to the await of
\* chatWithOrchestrator.
SrvChatSend(h) ==
    /\ hpc[h] = "idle"
    /\ hpc' = [hpc EXCEPT ![h] = IF projectContext THEN "chat" ELSE "idle"]
    /\ UNCHANGED <<serverMode, projectContext, plannerState, runs>>
    /\ ServerFrame

\* Lines 465-475: chatWithOrchestrator settled; with new subtasks and the
\* mode 'completed' or 'failed', handleContinue.
SrvChatReplies(h, newSubtasks) ==
    /\ hpc[h] = "chat"
    /\ IF newSubtasks /\ serverMode \in {"completed", "failed"}
       THEN HandleContinue(h)
       ELSE /\ hpc' = [hpc EXCEPT ![h] = "idle"]
            /\ UNCHANGED serverMode
    /\ UNCHANGED <<projectContext, plannerState, runs>>
    /\ ServerFrame

\* Lines 895-900: planner:start.
SrvPlannerStart ==
    /\ plannerState' = "empty"
    /\ serverMode' = "planning"
    /\ hpc' = Detached(hpc)
    /\ UNCHANGED <<projectContext, runs>>
    /\ ServerFrame

\* Lines 902-929: planner:send up to the await of processPlannerMessage.
SrvPlannerSend(h) ==
    /\ hpc[h] = "idle"
    /\ IF plannerState = "null"
       THEN /\ plannerState' = "empty"
            /\ serverMode' = "planning"
       ELSE UNCHANGED <<plannerState, serverMode>>
    /\ hpc' = [hpc EXCEPT ![h] = "planner"]
    /\ UNCHANGED <<projectContext, runs>>
    /\ ServerFrame

\* Lines 916-957: processPlannerMessage settled; its tools may have set the
\* task description of the state object it was given.
SrvPlannerReplies(h, described) ==
    /\ hpc[h] \in {"planner", "plannerStale"}
    /\ plannerState' = IF described /\ hpc[h] = "planner" THEN "described"
                       ELSE plannerState
    /\ hpc' = [hpc EXCEPT ![h] = "idle"]
    /\ UNCHANGED <<serverMode, projectContext, runs>>
    /\ ServerFrame

\* Lines 962-982: planner:build; with a task description the planner state
\* is cleared and startProject is awaited.
SrvPlannerBuild(h, dir) ==
    /\ hpc[h] = "idle"
    /\ IF plannerState # "described"
       THEN UNCHANGED <<serverMode, projectContext, plannerState, hpc>>
       ELSE /\ plannerState' = "null"
            /\ StartProject(h, dir, Detached(hpc))
    /\ UNCHANGED runs
    /\ ServerFrame

\* Lines 984-989: planner:cancel.
SrvPlannerCancel ==
    /\ plannerState' = "null"
    /\ serverMode' = "idle"
    /\ hpc' = Detached(hpc)
    /\ UNCHANGED <<projectContext, runs>>
    /\ ServerFrame

\* Lines 27-30: let serverMode = 'idle', projectContext and plannerState null.
ServerInit ==
    /\ serverMode = "idle"
    /\ projectContext = FALSE
    /\ plannerState = "null"
    /\ hpc = [h \in Handlers |-> "idle"]
    /\ runs = 0

ServerNext ==
    \/ \E h \in Handlers, dir \in Dirs : SrvCreateProject(h, dir)
    \/ \E h \in Handlers : SrvDirCreated(h)
    \/ \E h \in Handlers : SrvRunStarts(h)
    \/ \E fulfilled \in BOOLEAN : SrvRunSettles(fulfilled)
    \/ \E h \in Handlers, found \in BOOLEAN : SrvResumeProject(h, found)
    \/ \E found \in BOOLEAN : SrvViewProject(found)
    \/ \E h \in Handlers : SrvContinueProject(h)
    \/ \E h \in Handlers : SrvChatSend(h)
    \/ \E h \in Handlers, newSubtasks \in BOOLEAN : SrvChatReplies(h, newSubtasks)
    \/ SrvPlannerStart
    \/ \E h \in Handlers : SrvPlannerSend(h)
    \/ \E h \in Handlers, described \in BOOLEAN : SrvPlannerReplies(h, described)
    \/ \E h \in Handlers, dir \in Dirs : SrvPlannerBuild(h, dir)
    \/ SrvPlannerCancel

(***************************************************************************)
(* Specifications                                                          *)
(***************************************************************************)
\* Everything as constructed, the limiter built for the callers with limits
\* from the two sets.
InitFor(callers, concurrencies, hourlies) ==
    /\ TMInit
    /\ OrchInit
    /\ \E c \in concurrencies, h \in hourlies : RLInitFor(callers, c, h)
    /\ FLInit
    /\ calls = <<>>
    /\ LLMInit
    /\ WorkerInit
    /\ JSONInit
    /\ AskInit
    /\ CkptInit
    /\ PlanInit
    /\ StreamInit
    /\ ServerInit

InitWith(concurrencies, hourlies) == InitFor(Callers, concurrencies, hourlies)

Init == InitWith({1}, {1})

\* One slot to contend for, and an hourly limit no transport call can reach.
InitLLM == InitWith({1}, {NumCallers * (MAX_RETRIES + 1)})

InitLimits == InitWith(1..MaxC, 1..MaxH)

SpecTM == Init /\ [][TMNext]_vars

SpecOrch == Init /\ [][OrchNext]_vars

\* Every awaited LLM call, worker and verifier run returns.
SpecLoop == Init /\ [][LoopNext]_vars /\ WF_vars(LoopNext)

SpecBatch == Init /\ [][BatchNext]_vars

SpecRL == InitLimits /\ [][RLNext]_vars

InitQueue == InitFor(QueueCallers, 1..MaxC, {MaxCalls})

\* The continuation of a resolved promise runs, and a caller that was admitted
\* releases.
SpecQueue ==
    /\ InitQueue
    /\ [][QueueNext]_vars
    /\ \A c \in QueueCallers : WF_vars(RLResume(c)) /\ WF_vars(RLRelease(c))

SpecFL == Init /\ [][FLNext]_vars

\* The lock manager with every woken waiter running on and every tool's
\* file-system work ending.
SpecLocks ==
    /\ Init /\ [][LocksNext]_vars
    /\ \A w \in Workers :
           WF_vars(FLResume(w)) /\ WF_vars(\E how \in ExitKinds : FLToolReturn(w, how))

SpecCalls == Init /\ [][CallNext]_vars

SpecPlan == Init /\ [][PlanNext]_vars

SpecLLM == InitLLM /\ [][LLMNext]_vars

\* One streamed call on a limiter that admits every attempt at once.
SpecStream == InitLLM /\ [][StreamNext]_vars

SpecJSON == Init /\ [][JSONNext]_vars
SpecAsk == Init /\ [][AskNext]_vars
SpecStore == Init /\ [][StoreNext]_vars

SpecEffects == Init /\ [][EffectNext]_vars

SpecServer == Init /\ [][ServerNext]_vars

\* Every awaited LLM call and tool execution settles.
SpecWorker == Init /\ [][WorkerNext]_vars /\ WF_vars(WorkerNext)

(***************************************************************************)
(* Properties                                                              *)
(***************************************************************************)
Status(k) == subtasks[k].status
Attempts(k) == subtasks[k].attempts

\* Subtask k of ss is pending and each of its dependency ids is the id of a
\* completed subtask.
IsReady(ss, k) ==
    /\ ss[k].status = "pending"
    /\ \A j \in DOMAIN ss[k].dependencies :
          \E m \in DOMAIN ss : ss[m].id = ss[k].dependencies[j] /\ ss[m].status = "completed"

\* Subtask k of ss is pending and each of its dependency ids that is the id of
\* some subtask is the id of a completed one.
IsReadyIgnoringUnknown(ss, k) ==
    /\ ss[k].status = "pending"
    /\ \A j \in DOMAIN ss[k].dependencies :
          \A m \in DOMAIN ss : ss[m].id = ss[k].dependencies[j] => ss[m].status = "completed"

HasUnknownDependency(ss, k) ==
    \E j \in DOMAIN ss[k].dependencies :
        \A m \in DOMAIN ss : ss[m].id # ss[k].dependencies[j]

Increasing(seq) == \A i, j \in DOMAIN seq : i < j => seq[i] < seq[j]

\* C1: the number of callers admitted and not yet released never exceeds the
\* limiter's concurrency limit, whatever the interleaving of acquire and
\* release, callers that slept for the hourly bound included.
C1_ActiveCountWithinLimit == activeCount <= maxConcurrent

\* C2: no subtask has more attempts than MAX_SUBTASK_ATTEMPTS while its status
\* is not failed, after any sequence of task-manager calls.
C2_AttemptsCappedUnlessFailed ==
    \A k \in DOMAIN subtasks : Attempts(k) > MAX_SUBTASK_ATTEMPTS => Status(k) = "failed"

WritingKey(w) == LockKey(ftool[w], fpath[w])

C3_OneWriterPerKey ==
    \A w1, w2 \in Workers :
        (w1 # w2 /\ fpc[w1] = "writing" /\ fpc[w2] = "writing") => WritingKey(w1) # WritingKey(w2)

C3_WriterHoldsLock ==
    \A w \in Workers : fpc[w] = "writing" => locks[WritingKey(w)].workerIndex = w

C3_AcquireReturnsOnFreeLock ==
    \A w \in Workers :
        (fpc[w] # "writing" /\ fpc'[w] = "writing")
            => locks[LockKey(ftool'[w], fpath'[w])] = NoLock

\* C3: per normalized path, at most one worker is between the return of its
\* acquire and its release, that worker is the lock's holder, and an acquire
\* returns to a worker only when no other worker holds the lock.
C3_MutualExclusion ==
    /\ [](C3_OneWriterPerKey /\ C3_WriterHoldsLock)
    /\ [][C3_AcquireReturnsOnFreeLock]_vars

\* A worker writes while another waits in the queue of the same key.
C3_Witness ==
    \E w1, w2 \in Workers :
        /\ w1 # w2
        /\ fpc[w1] = "writing"
        /\ fpc[w2] = "waiting"
        /\ WritingKey(w1) = WritingKey(w2)
        /\ Len(waitQueues[WritingKey(w1)]) > 0

\* The two path arguments name the same file of the project, letter case aside.
SameFile(p, q) ==
    ToLowerCase(PathResolve(ProjectRoot, p)) = ToLowerCase(PathResolve(ProjectRoot, q))

\* C4: two workers modifying the same project file through write_file or
\* patch_file, under any spelling or case of its path, are never both inside
\* the lock-protected write section.
C4_OneWriterPerFile ==
    \A w1, w2 \in Workers :
        (w1 # w2 /\ fpc[w1] = "writing" /\ fpc[w2] = "writing")
            => ~SameFile(fpath[w1], fpath[w2])

\* C5 as stated: getReadySubtasks returns exactly the pending subtasks whose
\* dependencies that resolve to existing subtasks are all completed; an id
\* that matches no subtask does not affect the result.
C5_ReadyIgnoresUnknownIds ==
    Range(GetReadySubtasks(subtasks))
        = {k \in DOMAIN subtasks : IsReadyIgnoringUnknown(subtasks, k)}

\* C5: getReadySubtasks returns, in the list's order, exactly the pending
\* subtasks each of whose dependency ids resolves to an existing subtask that
\* is completed; a subtask with an id that matches no subtask is not ready.
C5_ReadyIffDependenciesCompleted ==
    /\ Range(GetReadySubtasks(subtasks)) = {k \in DOMAIN subtasks : IsReady(subtasks, k)}
    /\ Increasing(GetReadySubtasks(subtasks))
    /\ \A k \in DOMAIN subtasks :
          HasUnknownDependency(subtasks, k) => k \notin Range(GetReadySubtasks(subtasks))

\* A pending subtask whose only obstacle is a dependency id no subtask has.
C5_Witness ==
    \E k \in DOMAIN subtasks :
        /\ HasUnknownDependency(subtasks, k)
        /\ IsReadyIgnoringUnknown(subtasks, k)
        /\ k \notin Range(GetReadySubtasks(subtasks))

\* The plan [A, B dep A, C dep B] was taken.
ChainPlanned ==
    /\ Len(subtasks) >= 3
    /\ <<subtasks[1].title, subtasks[2].title, subtasks[3].title>> = <<"A", "B", "C">>
    /\ subtasks[1].dependencies = <<>>
    /\ subtasks[2].dependencies = <<subtasks[1].id>>
    /\ subtasks[3].dependencies = <<subtasks[2].id>>

Started(ss, tt, k) ==
    k \in DOMAIN tt /\ ss[k].status # "in_progress" /\ tt[k].status = "in_progress"

\* A subtask becomes in_progress only with every dependency completed, and
\* with none of its dependencies started in the same step.
C6_StartedOnlyWhenDependenciesCompleted ==
    \A k \in DOMAIN subtasks :
        Started(subtasks, subtasks', k) =>
            \A j \in DOMAIN subtasks[k].dependencies :
                /\ \E m \in DOMAIN subtasks :
                      /\ subtasks[m].id = subtasks[k].dependencies[j]
                      /\ subtasks[m].status = "completed"
                /\ \A m \in DOMAIN subtasks :
                      subtasks[m].id = subtasks[k].dependencies[j]
                          => ~Started(subtasks, subtasks', m)

\* With the chain plan and accepting reviews the batches are [A], [B], [C].
C6_ChainBatches ==
    (ChainPlanned /\ onlyAccepts) =>
        /\ \A i \in DOMAIN batches :
              i <= 3 => batches[i] = <<subtasks[i].title>>
        /\ \A i \in 1..3 : Status(i) \in {"in_progress", "completed"} => Len(batches) >= i

\* C6: a subtask is set to in_progress only when each of its dependencies is
\* completed at that moment, so never in one batch with a dependency; for the
\* plan [A, B dep A, C dep B] with accepting reviews the dispatch batches are
\* [A], [B], [C] in that order.
C6_DependencyOrderedDispatch ==
    /\ [][C6_StartedOnlyWhenDependenciesCompleted]_vars
    /\ []C6_ChainBatches

\* The chain plan ran under accepting reviews up to the dispatch of C.
C6_Witness ==
    /\ ChainPlanned
    /\ onlyAccepts
    /\ batches = << <<"A">>, <<"B">>, <<"C">> >>
    /\ Status(3) = "in_progress"

PermanentlyFailed(ss) ==
    \E k \in DOMAIN ss : ss[k].status = "failed" /\ ss[k].attempts >= MAX_SUBTASK_ATTEMPTS

C7_LoopHead ==
    (pc = "loop" /\ pc' # "loop" /\ iteration < IterationLimit) =>
        IF \E k \in DOMAIN subtasks : IsReady(subtasks, k)
        THEN pc' = "workers"
        ELSE IF \A k \in DOMAIN subtasks : Status(k) = "completed"
        THEN pc' = "verifying"
        ELSE IF PermanentlyFailed(subtasks)
        THEN pc' = "returned" /\ outcome' = "failed_max_attempts"
        ELSE pc' = "returned" /\ outcome' = "deadlock"

\* C7: at the head of each main-loop iteration exactly one branch is taken,
\* decided in this order: a subtask is ready, dispatch; else all completed,
\* verification; else a subtask failed for good, the failure error; else the
\* deadlock error.
C7_BranchOrder == [][C7_LoopHead]_vars

\* A run ended by the failure branch while another subtask was still pending.
C7_Witness ==
    /\ outcome = "failed_max_attempts"
    /\ \E k \in DOMAIN subtasks : Status(k) = "pending"

\* C8: when runOrchestrator ends because the planner returned no subtasks,
\* on a deadlock, or on subtasks failed after the maximum of attempts, a
\* project:error event has been emitted before it returns.
C8_ErrorEventBeforeReturn ==
    outcome \in {"plan_failed", "deadlock", "failed_max_attempts"}
        => "project:error" \in events

\* C9: the final review is asked for only after the verifier passed in that
\* iteration, and project:done follows only a verification that passed.
C9_FinalReviewOnlyAfterPass ==
    /\ pc = "final_review" => verification = "passed"
    /\ "project:done" \in events => verification = "passed"

\* C10: after any task-manager operation no subtask is pending with
\* attempts >= MAX_SUBTASK_ATTEMPTS.
C10_NoPendingAtCap ==
    \A k \in DOMAIN subtasks :
        ~(Status(k) = "pending" /\ Attempts(k) >= MAX_SUBTASK_ATTEMPTS)

WorkerRuns(id) == CallCount(id, {"completed", "failed"})
FailuresAndRevisions(id) == CallCount(id, {"failed", "revise"})

KindsOf(id) ==
    LET RECURSIVE From(_)
        From(i) == IF i > Len(calls) THEN <<>>
                   ELSE IF calls[i].subtaskId = id /\ calls[i].kind # "dispatch"
                        THEN <<calls[i].kind>> \o From(i + 1)
                        ELSE From(i + 1)
    IN  From(1)

ReviseThenAccept == <<"completed", "revise", "completed", "accept">>

LastCallIs(k, kind) ==
    /\ Len(calls') = Len(calls) + 1
    /\ calls'[Len(calls')] = Call(subtasks[k].id, kind)

C12_ReviewStep ==
    \A k \in DOMAIN subtasks :
        /\ LastCallIs(k, "reassign") =>
              /\ subtasks'[k].attempts = subtasks[k].attempts
              /\ subtasks'[k].assignedWorker = NoWorker
        /\ LastCallIs(k, "revise") =>
              subtasks'[k].attempts = subtasks[k].attempts + 1

\* C12: applyReviewDecisions with verdict reassign leaves the subtask's
\* attempts unchanged and clears assignedWorker; with verdict revise it makes
\* attempts exactly one greater than before.
C12_ReassignKeepsAttempts == [][C12_ReviewStep]_vars

\* A subtask that was dispatched and revised, then reassigned: its worker is
\* cleared and its attempts are still the one of the revision.
C12_Witness ==
    /\ Len(calls) >= 3
    /\ calls[Len(calls)].kind = "reassign"
    /\ calls[Len(calls) - 1].kind = "revise"
    /\ calls[Len(calls) - 2].kind = "dispatch"
    /\ \E k \in DOMAIN subtasks :
          /\ subtasks[k].id = calls[Len(calls)].subtaskId
          /\ subtasks[k].assignedWorker = NoWorker
          /\ Attempts(k) = 1

\* The acquisitions before the i-th that lie within the hour before it.
RecordedInHourBefore(i) ==
    {j \in DOMAIN acquired : j < i /\ acquired[j] >= acquired[i] - HOUR_MS}

\* The acquisitions in the hour that starts with the i-th.
RecordedInHourFrom(i) ==
    {j \in DOMAIN acquired : acquired[j] >= acquired[i] /\ acquired[j] <= acquired[i] + HOUR_MS}

\* C13: when acquire() records a timestamp, fewer than maxPerHour earlier
\* timestamps lie within the preceding 3,600,000 ms, so no rolling one-hour
\* window holds more than maxPerHour acquisitions.
C13_HourlyWindow ==
    \A i \in DOMAIN acquired :
        /\ Cardinality(RecordedInHourBefore(i)) < maxPerHour
        /\ Cardinality(RecordedInHourFrom(i)) <= maxPerHour

\* maxPerHour acquisitions filled the window, a caller slept, and was
\* admitted once the oldest of them had aged out.
C13_Witness ==
    /\ Len(acquired) > maxPerHour
    /\ "rate-limit:wait" \in events
    /\ acquired[Len(acquired)] > acquired[1] + HOUR_MS

\* The transport calls that hold a slot of the limiter.
Holding == {c \in Callers : rlpc[c] = "holding"}

Finished(c) == lpc[c] \in {"returned", "threw"}

\* C14: in chatCompletion and chatCompletionStream every attempt is preceded by
\* exactly one limiter.acquire() and followed by exactly one limiter.release()
\* on every exit path: during attempt n the call has acquired n + 1 times and
\* released n times, a call that returned or threw has released as often as it
\* acquired and holds no slot, the active count is the number of calls inside
\* an attempt's acquire/release pair, and it is never negative.
C14_AcquireReleasePaired ==
    /\ \A c \in Callers :
        /\ lpc[c] \in {"attempt", "streaming", "backoff"} =>
                /\ acquires[c] = attempt[c] + 1
                /\ releases[c] = attempt[c]
        /\ lpc[c] \in {"streaming", "backoff"} => c \in Holding
        /\ Finished(c) =>
                /\ acquires[c] = attempt[c] + 1
                /\ releases[c] = acquires[c]
                /\ c \notin Holding
    /\ activeCount = Cardinality(Holding)
    /\ activeCount >= 0
    /\ (\A c \in Callers : Finished(c)) => activeCount = 0

\* One call threw after its last retry, a streaming call returned after a
\* retry, and the active count is back at its value before the calls.
C14_Witness ==
    \E c, d \in Callers :
        /\ lpc[c] = "threw" /\ attempt[c] = MAX_RETRIES
        /\ lpc[d] = "returned" /\ attempt[d] > 0 /\ lfn[d] = "chatCompletionStream"
        /\ \A x \in Callers : Finished(x)
        /\ activeCount = 0

\* The errors the transport retries after: HTTP 429, any 5xx, three socket codes.
RetryableError(e) ==
    /\ ~e.falsy
    /\ \/ e.status \in {Some(status) : status \in {429} \cup (500..599)}
       \/ e.code \in {"ECONNRESET", "ETIMEDOUT", "ENOTFOUND"}

\* C15: a transport call makes at most 4 attempts; it sleeps for a retry only
\* after a retryable error, with exactly one llm:retry event emitted per
\* backoff sleep; an error is propagated from the attempt it occurred in exactly
\* when it is not retryable or it ended the 4th attempt, with no llm:retry
\* emitted for it; a call that returned swallowed no error.
C15_RetryBudget ==
    \A c \in Callers :
        /\ attempt[c] <= MAX_RETRIES
        /\ acquires[c] <= MAX_RETRIES + 1
        /\ lpc[c] = "backoff" =>
                /\ err[c] # None /\ RetryableError(err[c][1])
                /\ attempt[c] < MAX_RETRIES
                /\ retries[c] = attempt[c] + 1
                /\ "llm:retry" \in events
        /\ lpc[c] = "threw" =>
                /\ err[c] # None
                /\ ~RetryableError(err[c][1]) \/ attempt[c] = MAX_RETRIES
                /\ retries[c] = attempt[c]
        /\ lpc[c] \in {"idle", "attempt", "streaming", "returned"} =>
                /\ err[c] = None
                /\ retries[c] = attempt[c]

\* One call gave up after its 4th retryable failure, having emitted three
\* llm:retry events; another threw a non-retryable error from its first attempt.
C15_Witness ==
    \E c, d \in Callers :
        /\ lpc[c] = "threw" /\ attempt[c] = MAX_RETRIES /\ retries[c] = MAX_RETRIES
        /\ RetryableError(err[c][1])
        /\ lpc[d] = "threw" /\ attempt[d] = 0 /\ retries[d] = 0
        /\ ~RetryableError(err[d][1])

InProgress(ss) == {k \in DOMAIN ss : ss[k].status = "in_progress"}

\* At most WORKER_COUNT subtasks are in_progress, each with a worker index of
\* its own in 0..WORKER_COUNT-1.
C16_DistinctWorkers ==
    /\ Cardinality(InProgress(subtasks)) <= WORKER_COUNT
    /\ \A k \in InProgress(subtasks) :
            subtasks[k].assignedWorker \in 0..(WORKER_COUNT - 1)
    /\ \A k, m \in InProgress(subtasks) :
            k # m => subtasks[k].assignedWorker # subtasks[m].assignedWorker

\* A subtask becomes in_progress only from the ready set of the state its
\* batch was formed in.
C16_StartedFromReadySet ==
    \A k \in DOMAIN subtasks' :
        (k \in InProgress(subtasks') /\ k \notin InProgress(subtasks)) =>
            k \in Range(GetReadySubtasks(subtasks))

\* C16: at every instant of an orchestrator run at most 3 subtasks are
\* in_progress, the in_progress subtasks have pairwise distinct assignedWorker
\* values in {0,1,2}, and each of them was in the ready set when its batch was
\* formed.
C16_BatchWithinWorkers ==
    /\ []C16_DistinctWorkers
    /\ [][C16_StartedFromReadySet]_vars

\* Three subtasks are in_progress while a fourth is ready and waits for the
\* next batch.
C16_Witness ==
    /\ Cardinality(InProgress(subtasks)) = WORKER_COUNT
    /\ \E k \in DOMAIN subtasks : k \in Range(GetReadySubtasks(subtasks))

\* The workers of the current batch that have not settled.
Unsettled == {i \in DOMAIN settled : settled[i].state = "running"}

\* While a worker of the batch is unsettled, a step changes no subtask's
\* status, result, attempts, feedback or artifacts.
C17_NoChangeWhileRunning ==
    Unsettled # {} =>
        /\ DOMAIN subtasks' = DOMAIN subtasks
        /\ \A k \in DOMAIN subtasks :
              /\ subtasks'[k].status = subtasks[k].status
              /\ subtasks'[k].result = subtasks[k].result
              /\ subtasks'[k].attempts = subtasks[k].attempts
              /\ subtasks'[k].feedback = subtasks[k].feedback
              /\ subtasks'[k].artifacts = subtasks[k].artifacts

\* C17: while any worker of the current batch has not yet settled, no
\* subtask's status, result, attempts, feedback or stored artifacts is changed,
\* in whatever order the workers settle; the results are applied and the
\* review is asked for only once every worker has settled.
C17_AppliedOnlyAfterJoin ==
    /\ [][C17_NoChangeWhileRunning]_vars
    /\ [](pc = "reviewing" => Unsettled = {})

\* Of a batch of three the second worker failed and the third crashed while
\* the first still runs, and their subtasks are still in_progress.
C17_Witness ==
    /\ pc = "workers"
    /\ Len(settled) = WORKER_COUNT
    /\ settled[1].state = "running"
    /\ settled[2].state = "fulfilled" /\ settled[2].status = "failed"
    /\ settled[3].state = "rejected"
    /\ \A i \in DOMAIN assignments : Status(assignments[i]) = "in_progress"

\* The batch's results are applied in this step.
Joining == pc = "workers" /\ pc' # "workers"

\* What applyWorkerResult makes of subtask t when its worker failed with error e.
FailedOnce(t, u, e) ==
    /\ u.attempts = t.attempts + 1
    /\ u.artifacts = t.artifacts
    /\ IF u.attempts >= MAX_SUBTASK_ATTEMPTS
       THEN u.status = "failed" /\ u.feedback = t.feedback
       ELSE u.status = "pending" /\ u.feedback = e

\* When the batch is joined with a rejected worker, its subtask gets a failed
\* result with the rejection as error, each sibling gets what its worker
\* returned, and the run goes on to the review.
C18_JoinStep ==
    (Joining /\ \E i \in DOMAIN settled : settled[i].state = "rejected") =>
        /\ pc' = "reviewing"
        /\ outcome' = "running"
        /\ \A i \in DOMAIN assignments :
              LET t == subtasks[assignments[i]]
                  u == subtasks'[assignments[i]]
                  o == settled[i]
              IN  /\ u.id = t.id
                  /\ o.state = "rejected" => FailedOnce(t, u, o.reason)
                  /\ (o.state = "fulfilled" /\ o.status = "failed") =>
                        FailedOnce(t, u, o.error)
                  /\ (o.state = "fulfilled" /\ o.status = "completed") =>
                        /\ u.status = "completed"
                        /\ u.attempts = t.attempts
                        /\ u.artifacts = t.artifacts \o o.artifacts
        /\ \A k \in DOMAIN subtasks :
              k \notin Range(assignments) => subtasks'[k] = subtasks[k]

\* C18: if the worker of one subtask in a batch raises an exception, the
\* orchestrator still applies every sibling worker's result unchanged, applies
\* to the failing subtask a synthesized failed result carrying that subtask's
\* id and the exception message (attempts incremented by one), and proceeds to
\* the review step instead of terminating.
C18_CrashBecomesFailedResult == [][C18_JoinStep]_vars

\* A batch of three was joined: the crashed worker's subtask is pending again
\* with the exception as feedback, a sibling is completed, the review is next.
C18_Witness ==
    /\ pc = "reviewing"
    /\ Len(assignments) = WORKER_COUNT
    /\ \E k, m \in Range(assignments) :
          /\ Status(k) = "pending" /\ subtasks[k].feedback = "crash" /\ Attempts(k) = 1
          /\ Status(m) = "completed"

\* The main loop never starts more than IterationLimit iterations: a step
\* either stays within an iteration or ends it, none ends past the limit, and
\* every way back to the loop head, after a review, a fix plan or a final
\* review, ends one.
C19_IterationsCounted ==
    /\ iteration' \in {iteration, iteration + 1}
    /\ iteration' <= IterationLimit
    /\ (pc = "loop" /\ pc' # "loop" /\ outcome' # "max_iterations") =>
            iteration < IterationLimit
    /\ (pc \in {"reviewing", "fix_planning", "final_review"} /\ pc' = "loop") =>
            iteration' = iteration + 1

\* A run that returned on exhaustion ran all its iterations, saved the
\* subtasks it ended with, and emitted no project:done.
C19_ExhaustedRun ==
    outcome = "max_iterations" =>
        /\ pc = "returned"
        /\ iteration = IterationLimit
        /\ checkpoint = [exists |-> TRUE, subtasks |-> subtasks]
        /\ "project:done" \notin events

\* C19: when every LLM call, worker and verifier run returns, runOrchestrator
\* terminates after at most MAX_ORCH_ITER main-loop iterations in total,
\* dispatch iterations and verification iterations alike; when the bound is
\* reached it saves a checkpoint and returns without emitting project:done.
C19_TerminatesWithinIterationLimit ==
    /\ [][C19_IterationsCounted]_vars
    /\ []C19_ExhaustedRun
    /\ <>(pc = "returned")

\* A run exhausted by dispatch iterations and a verification iteration.
C19_Witness ==
    /\ outcome = "max_iterations"
    /\ fixPlanLen > 0
    /\ \E k \in DOMAIN subtasks : Attempts(k) > 0

\* The worker of the planned subtask A returned failed on three dispatches.
FailedThreeTimes == 1 \in DOMAIN subtasks /\ FailuresOf(1) >= MAX_SUBTASK_ATTEMPTS

C20_NoFourthDispatch == FailedThreeTimes => ~Started(subtasks, subtasks', 1)

C20_EndsFailed ==
    (FailedThreeTimes /\ pc = "returned" /\ outcome # "max_iterations") =>
        /\ Status(1) = "failed"
        /\ Attempts(1) = MAX_SUBTASK_ATTEMPTS
        /\ outcome = "failed_max_attempts"

\* C20: if the worker for subtask A returns failed on three dispatches, A ends
\* with status failed and attempts == 3, A is not dispatched a fourth time, and
\* the orchestrator terminates with the 'subtasks failed after max attempts'
\* error (a run cut short by the iteration limit aside).
C20_FailedAfterThreeFailures ==
    /\ [][C20_NoFourthDispatch]_vars
    /\ []C20_EndsFailed

\* The assistant messages runWorker received, and those among them with tool calls.
AssistantMessages == {i \in DOMAIN wmessages : wmessages[i].role = "assistant"}
WithToolCalls == {i \in AssistantMessages : Len(wmessages[i].tool_calls) > 0}

\* runWorker never makes more LLM calls than the budget, and what it returns
\* carries its subtask's id: completed iff a reply had no tool calls, failed
\* with max_iterations iff every reply of the whole budget had tool calls,
\* failed with the error if a call threw or brought no choice.
C21_ResultByReplies ==
    /\ wllmCalls <= MAX_WORKER_TOOL_LOOPS
    /\ wpc = "returned" <=> wresult # None
    /\ wresult # None =>
        LET result == wresult[1]
        IN  /\ result.subtaskId = wid
            /\ result.status \in {"completed", "failed"}
            /\ result.status = "completed" <=> AssistantMessages # WithToolCalls
            /\ (result.status = "failed" /\ result.error = "max_iterations") <=>
                    /\ AssistantMessages = WithToolCalls
                    /\ Cardinality(WithToolCalls) = MAX_WORKER_TOOL_LOOPS
            /\ Cardinality(AssistantMessages) < wllmCalls =>
                    /\ result.status = "failed"
                    /\ result.error \in LLMErrorMessages \cup {"empty_response"}

\* C21: runWorker always terminates after at most MAX_TOOL_LOOPS LLM calls and
\* returns a WorkerResult carrying its own subtask id: completed iff some reply
\* within the budget contains no tool calls, failed with max_iterations iff all
\* MAX_TOOL_LOOPS replies contained tool calls, failed with the error if an LLM
\* call throws or returns no choice.
C21_WorkerTerminates ==
    /\ []C21_ResultByReplies
    /\ <>(wpc = "returned")

\* The budget was used up with tool calls in every reply, one of them retried.
C21_Witness ==
    /\ wresult = Some(WorkerResult("failed", "max_iterations"))
    /\ wllmCalls = MAX_WORKER_TOOL_LOOPS
    /\ Len(winvoked) > Cardinality({i \in DOMAIN wmessages : wmessages[i].role = "tool"})

\* C25: for every valid JSON text s that is a balanced object or array,
\* parseJSON("prelude\n" + s + "\npostlude") returns the value of JSON.parse(s).
C25_SalvageEqualsParse ==
    jsonText # None => jsonResult = JSONParse(jsonText[1])

\* The chatCompletion calls of askOrchestrator's loop, in order.
ReplyCalls == SelectSeq(askCalls, LAMBDA c : c.purpose = "reply")
Retried == 1..(Len(ReplyCalls) - 1)

C28_ReturnedReplyIsLastMessage ==
    askPc = "returned" =>
        /\ orchestratorMessages # <<>>
        /\ orchestratorMessages[Len(orchestratorMessages)] = Message("assistant", askReturned[1])

\* The retries are exhausted and an unparseable third reply is returned.
C28_Witness ==
    /\ askPc = "returned"
    /\ askAttempt = DefaultMaxJsonRetries
    /\ Len(askReplies) = DefaultMaxJsonRetries + 1
    /\ ~Blank(askReturned[1])
    /\ Invalid(askReturned[1])

SubtaskFields ==
    {"id", "title", "description", "dependencies", "assignedWorker", "result",
     "artifacts", "attempts", "feedback", "status"}

\* C23: the subtasks loadCheckpoint returns for the file saveCheckpoint wrote
\* are the saved ones in the saved order, every field as it was, except that a
\* status in_progress has become pending; no loaded subtask is in_progress.
C23_SaveLoadRoundTrip ==
    lastOp = "loadCheckpoint" =>
        /\ Len(subtasks) = Len(savedSubtasks)
        /\ \A i \in DOMAIN subtasks :
               /\ \A k \in SubtaskFields \ {"status"} :
                      Field(subtasks[i], k) = Field(savedSubtasks[i], k)
               /\ Field(subtasks[i], "status") =
                      IF savedSubtasks[i].status = "in_progress" THEN "pending"
                      ELSE savedSubtasks[i].status
               /\ Field(subtasks[i], "status") # "in_progress"

\* A context saved while A, planned without a description, was in_progress,
\* and then loaded.
C23_Witness ==
    /\ lastOp = "loadCheckpoint"
    /\ \E i \in DOMAIN savedSubtasks :
           /\ savedSubtasks[i].status = "in_progress"
           /\ savedSubtasks[i].description = Undefined
           /\ Field(subtasks[i], "status") = "pending"
    /\ \E i \in DOMAIN savedSubtasks : savedSubtasks[i].status = "pending"

IsPrefix(s, t) == Len(s) <= Len(t) /\ SubSeq(t, 1, Len(s)) = s

PermanentlyFailedAtLoopHead ==
    /\ pc = "loop"
    /\ iteration < IterationLimit
    /\ AnyFailed(subtasks)

\* C26: an iteration that starts with a permanently failed subtask
\* ends the run with the failure error and dispatches nothing, whether or not
\* other subtasks are ready.
C26_FailedAlwaysStops ==
    [][PermanentlyFailedAtLoopHead =>
           /\ pc' = "returned"
           /\ outcome' = "failed_max_attempts"
           /\ subtasks' = subtasks]_vars

\* C27: a final review ends the run only when the parsed status is done, with
\* project:done emitted; after a needs_more reply, with or without additional
\* subtasks, and after an unparseable reply the main loop goes on.
C27_FinalReviewStopsOnlyWhenDone ==
    [][pc = "final_review" =>
           IF pc' = "returned"
           THEN outcome' = "done" /\ "project:done" \in events'
           ELSE pc' = "loop"]_vars

\* A step in which caller c returns from release().
ReleaseStep(c) == rlpc[c] = "holding" /\ rlpc'[c] = "idle"

\* release() takes one from the active count and wakes the waiter at the head
\* of the queue, that one only, or nobody when nobody waits.
C29_ReleaseWakesLongestWaiter ==
    \A c \in QueueCallers :
        ReleaseStep(c) =>
            /\ activeCount' = activeCount - 1
            /\ IF waitQueue = <<>>
               THEN /\ waitQueue' = <<>>
                    /\ \A d \in QueueCallers \ {c} : rlpc'[d] = rlpc[d]
               ELSE /\ waitQueue' = Tail(waitQueue)
                    /\ rlpc'[Head(waitQueue)] = "woken"
                    /\ \A d \in QueueCallers \ {c, Head(waitQueue)} : rlpc'[d] = rlpc[d]

Blocked(c) == rlpc[c] \in {"waiting", "woken"}
HourlyBoundReached == Len(callTimestamps) >= maxPerHour

SleepStep(c) == rlpc[c] # "sleeping" /\ rlpc'[c] = "sleeping"

\* The caller sleeps for a positive waitMs, with rate-limit:wait emitted.
C30_WaitAnnounced ==
    \A c \in Callers :
        SleepStep(c) => "rate-limit:wait" \in events' /\ wakeAt'[c] > now

\* C30: with an hourly limit of 2, the third acquire() returns only when the
\* first recorded timestamp is more than 3,600,000 ms old, and a caller that
\* sleeps for the hourly bound has emitted rate-limit:wait with a positive
\* waitMs before it sleeps.
C30_ThirdAcquireWaitsOutTheHour ==
    /\ [](maxPerHour = 2 /\ Len(acquired) >= 3 => acquired[3] > acquired[1] + HOUR_MS)
    /\ [][C30_WaitAnnounced]_vars

\* Two acquire/release pairs at the same instant, a third acquire that slept,
\* and its return after the hour, every slot released.
C30_Witness ==
    /\ maxPerHour = 2
    /\ Len(acquired) = 3
    /\ acquired[2] = acquired[1]
    /\ "rate-limit:wait" \in events
    /\ activeCount = 0

\* A step in which worker w returns from release() on its key.
FLReleaseStep(w) == fpc[w] = "writing" /\ fpc'[w] = "idle"

\* release() deletes the lock of the key and resolves the promise at the head
\* of the key's queue, that one only, or nobody's when nobody waits; the queues
\* of other keys are left alone.
C31_ReleaseWakesHeadOfQueue ==
    \A w \in Workers :
        FLReleaseStep(w) =>
            LET key == WritingKey(w)
            IN  /\ locks'[key] = NoLock
                /\ \A k \in LockKeys \ {key} : waitQueues'[k] = waitQueues[k]
                /\ IF waitQueues[key] = <<>>
                   THEN /\ waitQueues'[key] = <<>>
                        /\ \A v \in Workers \ {w} : fpc'[v] = fpc[v]
                   ELSE /\ waitQueues'[key] = Tail(waitQueues[key])
                        /\ fpc[Head(waitQueues[key])] = "waiting"
                        /\ fpc'[Head(waitQueues[key])] = "woken"
                        /\ \A v \in Workers \ {w, Head(waitQueues[key])} : fpc'[v] = fpc[v]

\* A worker suspended in acquire is in the queue of its key, once, and the
\* queues hold nobody else.
C31_WaitersQueuedOnce ==
    \A k \in LockKeys :
        /\ \A i, j \in DOMAIN waitQueues[k] : waitQueues[k][i] = waitQueues[k][j] => i = j
        /\ \A w \in Workers :
               (\E i \in DOMAIN waitQueues[k] : waitQueues[k][i] = w)
                   <=> (fpc[w] = "waiting" /\ WritingKey(w) = k)

BlockedInAcquire(w) == fpc[w] \in {"waiting", "woken"}

RECURSIVE EmittedFrom(_)
EmittedFrom(p) ==
    IF p > Len(wmessages) THEN <<>>
    ELSE IF wmessages[p].role = "assistant"
         THEN wmessages[p].tool_calls \o EmittedFrom(p + 1)
         ELSE EmittedFrom(p + 1)
Emitted == EmittedFrom(1)

\* The executeTool invocations, a retry counted with the invocation it repeats.
RECURSIVE Distinct(_)
Distinct(seq) ==
    IF Len(seq) <= 1 THEN seq
    ELSE IF seq[1] = seq[2] THEN Distinct(Tail(seq))
         ELSE <<seq[1]>> \o Distinct(Tail(seq))

ToolMessages == {i \in DOMAIN wmessages : wmessages[i].role = "tool"}
Executing == wpc \in {"tool", "retry"}

\* Tool calls are invoked in emitted order, and one is invoked only when every
\* call before it has its tool message.
C32_InvokedInOrder ==
    /\ IsPrefix(Distinct(winvoked), Emitted)
    /\ Len(Distinct(winvoked)) = Cardinality(ToolMessages) + (IF Executing THEN 1 ELSE 0)

\* Every assistant message is followed by the tool messages of its tool calls,
\* one per call and in emitted order: all of them when the next LLM call is
\* made or runWorker has returned, those of the calls before the current one
\* while a tool executes.
C32_ToolMessagesInOrder ==
    /\ wmessages # <<>> => wmessages[1].role = "assistant"
    /\ \A p \in AssistantMessages :
           LET toolCalls == wmessages[p].tool_calls
               answered == IF Executing /\ p = Max(AssistantMessages)
                           THEN wnext - 1 ELSE Len(toolCalls)
           IN  /\ Len(wmessages) >= p + answered
               /\ \A i \in 1..answered :
                      /\ wmessages[p + i].role = "tool"
                      /\ wmessages[p + i].tool_call_id = toolCalls[i]
               /\ Len(wmessages) > p + answered => wmessages[p + answered + 1].role = "assistant"

\* C32: within one worker the tool calls of an assistant message are executed
\* one after another in the order the LLM emitted them, never two at a time,
\* and each produces exactly one tool message with its tool_call_id, appended
\* in that order before the next LLM call.
C32_SequentialToolCalls == C32_InvokedInOrder /\ C32_ToolMessagesInOrder

\* A message with two tool calls, the first of them retried, was answered by
\* two tool messages, and the next reply has arrived.
C32_Witness ==
    \E p \in WithToolCalls :
        /\ Len(wmessages[p].tool_calls) = 2
        /\ Len(wmessages) >= p + 3
        /\ wmessages[p + 3].role = "assistant"
        /\ Len(winvoked) >= 3
        /\ winvoked[1] = winvoked[2]

\* A step in which the second executeTool of a tool call settles.
RetrySettled == wpc = "retry" /\ wpc' # "retry"
\* A step in which the first executeTool of a tool call throws.
FirstThrew == wpc = "tool" /\ wpc' = "retry"

Invocations(id) == Cardinality({i \in DOMAIN winvoked : winvoked[i] = id})

\* A first throw invokes the same tool call once more and pushes nothing; when
\* the second invocation settles, the tool message of the call is pushed (the
\* error string if it threw as well) and runWorker goes on with the next tool
\* call or the next step of its loop.
C33_RetryStep ==
    /\ FirstThrew =>
           /\ winvoked' = Append(winvoked, wtoolCalls[wnext])
           /\ wmessages' = wmessages
           /\ UNCHANGED <<wnext, wtoolCalls, wresult>>
    /\ RetrySettled =>
           /\ Len(wmessages') = Len(wmessages) + 1
           /\ wmessages'[Len(wmessages')].role = "tool"
           /\ wmessages'[Len(wmessages')].tool_call_id = wtoolCalls[wnext]
           /\ wmessages'[Len(wmessages')].content \in {"result", "Tool execution failed after retry"}
           /\ IF wnext < Len(wtoolCalls)
              THEN wpc' = "tool" /\ wnext' = wnext + 1
              ELSE IF wstep + 1 < MAX_WORKER_TOOL_LOOPS
                   THEN wpc' = "llm" /\ wresult' = None
                   ELSE wresult' = Some(WorkerResult("failed", "max_iterations"))

\* C33: when executeTool throws, the same tool call is invoked exactly once
\* more; if that throws too, the error string becomes the call's tool message
\* and the worker loop goes on; no tool call is invoked more than twice.
C33_RetryOnce ==
    /\ [][C33_RetryStep]_vars
    /\ [](\A i \in DOMAIN winvoked : Invocations(winvoked[i]) <= 2)

\* Both invocations of a tool call threw, the error string is its tool message
\* and the worker went on to its next LLM call.
C33_Witness ==
    /\ wpc = "llm"
    /\ \E i \in ToolMessages :
           /\ wmessages[i].content = "Tool execution failed after retry"
           /\ Invocations(wmessages[i].tool_call_id) = 2

\* The subtask pushed for entry i (0-based) of the plan last added.
Pushed(i) == subtasks[Len(planBase) + i + 1]

\* A token that is a decimal numeral naming a position of the plan.
IsPlanIndex(plan, tok) ==
    \E d \in DOMAIN Digits : Digits[d] = tok /\ d - 1 < Len(plan)
IndexOfNumeral(tok) == (CHOOSE d \in DOMAIN Digits : Digits[d] = tok) - 1

\* The ids a dependency token of entry i may resolve to under the stated
\* order; the empty set when the token is to be dropped.
ResolutionsOf(plan, tok, i) ==
    LET others == {j \in 0..(Len(plan) - 1) : j # i /\ plan[j + 1].title = tok}
        existing == {k \in DOMAIN planBase : planBase[k].title = tok}
    IN  IF others # {} THEN {Pushed(j).id : j \in others}
        ELSE IF existing # {} THEN {planBase[k].id : k \in existing}
        ELSE IF IsPlanIndex(plan, tok) THEN {Pushed(IndexOfNumeral(tok)).id}
        ELSE {}

\* The tokens of a dependency list that are not to be dropped, in order.
RECURSIVE Resolvable(_, _, _)
Resolvable(plan, deps, i) ==
    IF deps = <<>> THEN <<>>
    ELSE IF ResolutionsOf(plan, Head(deps), i) = {} THEN Resolvable(plan, Tail(deps), i)
    ELSE <<Head(deps)>> \o Resolvable(plan, Tail(deps), i)

\* C34: addSubtasksFromPlan resolves each dependency token to (a) the id of
\* another entry of the same plan with that title, else (b) the id of an
\* existing subtask with that title, else (c) the id of the plan entry the
\* token names by numeric index; a token matching none of these is dropped.
C34_ResolutionOrder ==
    planInput # None =>
        LET plan == planInput[1]
        IN  \A i \in 0..(Len(plan) - 1) :
                LET kept == Resolvable(plan, plan[i + 1].dependencies, i)
                    deps == Pushed(i).dependencies
                IN  /\ Len(deps) = Len(kept)
                    /\ \A n \in DOMAIN kept : deps[n] \in ResolutionsOf(plan, kept[n], i)

\* C36: after addSubtasksFromPlan no subtask's dependencies contain that
\* subtask's own id, whatever the plan.
C36_NoSelfDependency ==
    \A k \in DOMAIN subtasks : subtasks[k].id \notin Range(subtasks[k].dependencies)

\* What one call on the task manager does to the collection: nothing is
\* removed and no id changes; applyWorkerResult and applyReviewDecisions add
\* nothing and change only subtasks whose id the call names (none when no
\* subtask has that id); a completed subtask changes only under a review
\* decision that names it; only a dispatch makes a subtask in_progress, and
\* only a pending one.
C35_CallEffect ==
    opCount' = opCount + 1 =>
        /\ Len(subtasks') >= Len(subtasks)
        /\ \A k \in DOMAIN subtasks : subtasks'[k].id = subtasks[k].id
        /\ lastOp'.kind \in {"applyWorkerResult", "applyReviewDecisions"} =>
               /\ Len(subtasks') = Len(subtasks)
               /\ \A k \in DOMAIN subtasks :
                      subtasks[k].id \notin lastOp'.ids => subtasks'[k] = subtasks[k]
        /\ \A k \in DOMAIN subtasks :
               (subtasks[k].status = "completed" /\ subtasks'[k] # subtasks[k]) =>
                   /\ lastOp'.kind = "applyReviewDecisions"
                   /\ subtasks[k].id \in lastOp'.ids
        /\ \A k \in DOMAIN subtasks :
               (subtasks'[k].status = "in_progress" /\ subtasks[k].status # "in_progress") =>
                   /\ lastOp'.kind = "dispatch"
                   /\ subtasks[k].status = "pending"

\* C35: applyWorkerResult changes only the subtask whose id is result.subtaskId
\* and applyReviewDecisions only subtasks a decision names, an unknown id
\* changing nothing; so a completed subtask, also one completed before more
\* subtasks were added, is dispatched again only after a review decision naming
\* it made it pending, and no subtask is ever removed.
C35_OnlyNamedSubtasksChange == [][C35_CallEffect]_vars

\* A dispatch after a completion: the completed subtask kept its status and
\* its result while the subtask depending on it went in_progress.
C35_Witness ==
    /\ opCount > 0
    /\ lastOp.kind = "dispatch"
    /\ \E k, n \in DOMAIN subtasks :
           /\ subtasks[k].status = "completed"
           /\ subtasks[k].result # NoResult
           /\ subtasks[k].id \notin lastOp.ids
           /\ subtasks[n].status = "in_progress"

\* The file saveCheckpoint wrote holds no subtask that is in_progress.
C37_NoInProgressInFile ==
    checkpoint.exists =>
        \A i \in DOMAIN checkpoint.subtasks : checkpoint.subtasks[i].status # "in_progress"

\* The file is not written by the dispatch nor while the batch's workers run.
C37_NoSaveWhileBatchRuns ==
    pc' = "workers" => checkpoint' = checkpoint

\* C37: every checkpoint written during a run that began without in_progress
\* subtasks holds no in_progress subtask: saveCheckpoint is not invoked between
\* the marking of a batch and the application of all of its worker results.
C37_CheckpointsWithoutInProgress ==
    /\ []C37_NoInProgressInFile
    /\ [][C37_NoSaveWhileBatchRuns]_vars

\* A second batch runs, one worker settled, the file being the one written
\* after the review of the first batch.
C37_Witness ==
    /\ pc = "workers"
    /\ iteration >= 1
    /\ checkpoint.exists
    /\ \E k \in DOMAIN subtasks : subtasks[k].status = "in_progress"
    /\ \E i \in DOMAIN settled : settled[i].state # "running"
    /\ \E i \in DOMAIN checkpoint.subtasks : checkpoint.subtasks[i].status = "completed"

\* The keys whose lock worker w holds.
HeldBy(w) == {k \in LockKeys : locks[k].workerIndex = w}

\* A worker outside a tool call holds no lock, a worker holds one lock at most
\* and only the one of the call it is in, and a worker waiting for a key has a
\* worker ahead of it that runs on: the writer holding the key, or a waiter that
\* release() has woken.
C38_LockHeldOnlyInsideCall ==
    \A w \in Workers :
        /\ fpc[w] # "writing" => HeldBy(w) = {}
        /\ fpc[w] = "writing" => HeldBy(w) = {WritingKey(w)}
        /\ fpc[w] = "waiting" =>
               \E v \in Workers \ {w} :
                   /\ fpc[v] \in {"writing", "woken"}
                   /\ WritingKey(v) = WritingKey(w)

\* C38: write_file and patch_file release the lock they acquired on every exit
\* path (written, I/O error, search text not found, multiple matches): a worker
\* whose tool has returned holds no lock, no worker holds a lock across tool
\* calls or two locks at once, and the workers cannot deadlock on file locks.
C38_ReleasedOnEveryExit ==
    /\ C38_LockHeldOnlyInsideCall
    /\ fexit.worker \in Workers /\ fpc[fexit.worker] = "idle" =>
           \A k \in LockKeys : locks[k].workerIndex # fexit.worker

\* patch_file returned through the search-text-not-found exit while another
\* worker waited for the same key: the lock is free and that waiter is woken.
C38_Witness ==
    /\ fexit.how = "not_found"
    /\ fpc[fexit.worker] = "idle"
    /\ \E v \in Workers :
           /\ fpc[v] = "woken"
           /\ locks[WritingKey(v)] = NoLock
           /\ ftool[v] = "patch_file"

\* The content of the assistant message the call returned, "" for null.
ReturnedContent ==
    IF sresponse[1].content = None THEN <<>> ELSE sresponse[1].content[1]

\* C39: for every chatCompletionStream call that returns, the chunks passed to
\* onToken during the call, concatenated, are the content of the returned
\* assistant message, also when an attempt failed after streaming some tokens
\* and the call was retried.
C39_TokensEqualContent ==
    spc = "returned" => stokens = ReturnedContent

\* C40: through the web server's message handlers (create:project,
\* resume:project, continue:project, chat:send, planner:start, planner:build,
\* planner:cancel, view:project), at most one runOrchestrator/continueProject
\* execution is in flight at any time, for any interleaving of client messages
\* with the handlers' await points.
C40_AtMostOneRunInFlight ==
    runs <= 1

====
